---- MODULE Spec2Model ----
(***************************************************************************)
(* Signal fusion engine (SignalFusionEngine) and backtesting engine        *)
(* (BacktestingService) of the AJAI trading platform.                      *)
(*                                                                         *)
(* Numbers.  A score is an integer number of 1/ScoreOne units, so 0.15 is  *)
(* 1500 and 1.0 is 10000.  A weight is an integer number of hundredths.    *)
(* A percentage (confidence) is an integer number of 1/PctOne percent, so  *)
(* that "score * 100" is the same integer read in the percentage unit.     *)
(* The two IEEE values the code can produce besides ordinary numbers, NaN  *)
(* and undefined, are the reserved integers NaN and Undefined; every       *)
(* arithmetic and comparison operator below treats them as JavaScript      *)
(* does.                                                                   *)
(***************************************************************************)
EXTENDS Integers, Sequences, FiniteSets, TLC

VARIABLES
    fnArg,          \* argument of the scoring function under evaluation
    fnOut,          \* its result, or NoOut before the function was applied
    symbol,         \* generateFusionSignal: the symbol of the request
    env,            \* what the collaborators answer during the request
    settled,        \* the five promises handed to Promise.allSettled
    fpc,            \* "idle" | "gathering" | "returned"
    fusionSignals,  \* MemStorage.fusionSignals, in insertion order
    historicalData, \* runBacktest: the candles, oldest first
    initialBalance,
    i,              \* index of the decision candle (from 0, as in the code)
    currentBalance,
    position,       \* {type, price, size}; type "none" is the code's null
    trades,         \* the BacktestTrades recorded so far
    maxBalance,
    maxDrawdown,
    lastSignal,     \* the signal of the step taken last
    opened,         \* history: how many positions were opened
    openedAt,       \* history: index of the candle the position was opened at
    btpc,           \* "idle" | "loop" | "done"
    result,         \* the BacktestResult returned
    apiKey,         \* process.env.OPENAI_API_KEY of the server
    today,          \* the calendar day new Date().toDateString() reads
    budgetUsedToday,
    lastResetDate,
    llmCalls,       \* history: requests sent to the LLM on the day `today`
    autoTradingConfig,
    signalTask,     \* the invocations of generateTradingSignal
    newsTask,       \* the invocation of fetchAndAnalyzeNews
    positions,      \* history: the signals storage.createPosition was
                    \* called for
    createdToday,   \* history: positions executeAutoTrade created on the
                    \* day `today` since maxDailyTrades was last set
    tradingSignals, \* MemStorage.tradingSignals: id -> signal
    executeTask,    \* the requests POST /api/signals/execute/:id
    executions,     \* history: id -> positions and trades created for it
    ws,             \* connectWebSocket: readyState of the socket, or "null"
    reconnectAttempts,
    reconnectTimer, \* a setTimeout of onclose is pending
    cleanedUp,      \* history: the cleanup function was called
    connections     \* history: how many times new WebSocket(wsUrl) ran

scoreVars == <<fnArg, fnOut>>
fusionVars == <<symbol, env, settled, fpc, fusionSignals>>
btVars == <<historicalData, initialBalance, i, currentBalance, position,
            trades, maxBalance, maxDrawdown, lastSignal, opened, openedAt,
            btpc, result>>
appVars == <<apiKey, today, budgetUsedToday, lastResetDate, llmCalls,
             autoTradingConfig, signalTask, newsTask, positions>>
dayVars == <<createdToday>>
execVars == <<tradingSignals, executeTask, executions>>
wsVars == <<ws, reconnectAttempts, reconnectTimer, cleanedUp, connections>>
clientVars == <<execVars, wsVars>>
vars == <<fnArg, fnOut, symbol, env, settled, fpc, fusionSignals,
          historicalData, initialBalance, i, currentBalance, position,
          trades, maxBalance, maxDrawdown, lastSignal, opened, openedAt,
          btpc, result, apiKey, today, budgetUsedToday, lastResetDate,
          llmCalls, autoTradingConfig, signalTask, newsTask, positions, createdToday,
          tradingSignals, executeTask, executions, ws, reconnectAttempts,
          reconnectTimer, cleanedUp, connections>>

----------------------------------------------------------------------------
(* JavaScript numbers *)

ScoreOne == 10000
WeightOne == 100
PctOne == ScoreOne \div 100

NaN == 2^30
Undefined == 2^30 + 1

IsNum(x) == x # NaN /\ x # Undefined

\* ToNumber: undefined becomes NaN
ToNumber(x) == IF x = Undefined THEN NaN ELSE x

\* Math.max / Math.min / Math.abs: NaN if an argument is NaN
MathMax(a, b) ==
    IF ToNumber(a) = NaN \/ ToNumber(b) = NaN THEN NaN
    ELSE IF a > b THEN a ELSE b

MathMin(a, b) ==
    IF ToNumber(a) = NaN \/ ToNumber(b) = NaN THEN NaN
    ELSE IF a < b THEN a ELSE b

MathAbs(a) ==
    IF ToNumber(a) = NaN THEN NaN
    ELSE IF a < 0 THEN -a ELSE a

\* a > b and a < b: false as soon as an operand is NaN
JsGt(a, b) == ToNumber(a) # NaN /\ ToNumber(b) # NaN /\ a > b
JsLt(a, b) == ToNumber(a) # NaN /\ ToNumber(b) # NaN /\ a < b

\* a + b
JsAdd(a, b) ==
    IF ToNumber(a) = NaN \/ ToNumber(b) = NaN THEN NaN ELSE a + b

\* a || d on numbers: d when a is 0, NaN or undefined
JsOr(a, d) == IF a = 0 \/ a = NaN \/ a = Undefined THEN d ELSE a

\* score * weight, the weight given in hundredths; the sum of the five
\* products is divided by WeightOne once (see calculateWeightedScore)
JsTimesWeight(score, w) ==
    IF ToNumber(score) = NaN THEN NaN ELSE score * w

\* Math.max(-1, Math.min(1, x))
ClampUnit(x) == MathMax(-ScoreOne, MathMin(ScoreOne, x))

----------------------------------------------------------------------------
(* Symbols.  A symbol is a sequence of tokens ("RELIANCE" "-EQ");          *)
(* String.includes is containment of a contiguous run of tokens.           *)

Includes(s, t) ==
    \E at \in 0..(Len(s) - Len(t)) : SubSeq(s, at + 1, at + Len(t)) = t

cryptoSymbols ==
    {<<"BTC">>, <<"ETH">>, <<"ADA">>, <<"SOL">>, <<"MATIC">>, <<"DOT">>,
     <<"LINK">>, <<"UNI">>, <<"AVAX">>, <<"ATOM">>}

indianStocks ==
    {<<"RELIANCE">>, <<"TCS">>, <<"HDFCBANK">>, <<"INFY">>, <<"HINDUNILVR">>,
     <<"ICICIBANK">>, <<"KOTAKBANK">>, <<"SBIN">>}

\* the symbols requests are made for
Symbols ==
    {<<"BTC">>, <<"BTC", "USDT">>, <<"RELIANCE">>, <<"RELIANCE", "-EQ">>,
     <<"AAPL">>}

\* this.cryptoSymbols.includes(symbol)
IsCrypto(sym) == sym \in cryptoSymbols

\* this.indianStocks.some(stock => symbol.includes(stock))
IsIndianStock(sym) == \E stock \in indianStocks : Includes(sym, stock)

----------------------------------------------------------------------------
(* Fusion: weights, weighted score, direction and confidence *)

dataSourceWeights ==
    [technical |-> 30, social |-> 25, telegram |-> 25, indianMarket |-> 10,
     news |-> 10]

cryptoWeightsTechnicalKept ==
    [dataSourceWeights EXCEPT !.social = 30, !.telegram = 30,
                              !.indianMarket = 5, !.news = 10]

cryptoWeights ==
    [dataSourceWeights EXCEPT !.social = 30, !.telegram = 30,
                              !.technical = 25, !.indianMarket = 5,
                              !.news = 10]

indianWeights ==
    [dataSourceWeights EXCEPT !.indianMarket = 35, !.technical = 35,
                              !.social = 15, !.telegram = 10, !.news = 5]

WeightsForAlwaysDefault(sym) == dataSourceWeights

WeightsFor(sym) ==
    IF IsCrypto(sym) THEN cryptoWeights
    ELSE IF IsIndianStock(sym) THEN indianWeights
    ELSE dataSourceWeights

WeightedSum(scores, weights) ==
    LET sum == JsAdd(JsAdd(JsAdd(JsAdd(
                   JsTimesWeight(scores.technicalScore, weights.technical),
                   JsTimesWeight(scores.socialScore, weights.social)),
                   JsTimesWeight(scores.telegramScore, weights.telegram)),
                   JsTimesWeight(scores.indianMarketScore, weights.indianMarket)),
                   JsTimesWeight(scores.newsScore, weights.news))
    IN  IF sum = NaN THEN NaN ELSE sum \div WeightOne

calculateWeightedScore(scores, sym) ==
    ClampUnit(WeightedSum(scores, WeightsFor(sym)))

\* The same sum as the code's numbers carry it: IEEE-754 doubles.  A double
\* is held exactly as hi * Limb + lo units of 2^-57 (every weight and every
\* sum of weights up to 2 is a whole number of them).
Limb == 2^28

Double(hi, lo) == [hi |-> hi + (lo \div Limb), lo |-> lo % Limb]

DoubleZero == Double(0, 0)

DoubleOne == Double(2^29, 0)

\* the double a weight's decimal literal denotes (the weight in hundredths)
DoubleOfWeight(w) ==
    CASE w = 5 -> Double(26843545, 161061274)
      [] w = 10 -> Double(53687091, 53687092)
      [] w = 15 -> Double(80530636, 214748364)
      [] w = 25 -> Double(134217728, 0)
      [] w = 30 -> Double(161061273, 161061272)
      [] w = 35 -> Double(187904819, 53687088)

DoubleNeg(d) == Double(-d.hi, -d.lo)

DoubleAbs(d) == IF d.hi < 0 THEN DoubleNeg(d) ELSE d

DoubleLess(a, b) == a.hi < b.hi \/ (a.hi = b.hi /\ a.lo < b.lo)

\* how many low bits a 53-bit significand cannot hold
DoubleDroppedBits(d) ==
    LET m == DoubleAbs(d).hi
    IN  IF m < 2^25 THEN 0 ELSE IF m < 2^26 THEN 1 ELSE IF m < 2^27 THEN 2
        ELSE IF m < 2^28 THEN 3 ELSE IF m < 2^29 THEN 4
        ELSE IF m < 2^30 THEN 5 ELSE 6

\* round to nearest, ties to even
DoubleRound(d) ==
    LET k == DoubleDroppedBits(d)
        step == 2^k
        r == d.lo % step
        down == d.lo - r
        up == \/ 2 * r > step
              \/ 2 * r = step /\ (down \div step) % 2 = 1
    IN  IF k = 0 THEN d
        ELSE Double(d.hi, IF up THEN down + step ELSE down)

\* operator + on doubles
DoubleAdd(a, b) == DoubleRound(Double(a.hi + b.hi, a.lo + b.lo))

\* score * weight for a score of -1, 0 or 1: the product is exact
DoubleTimesUnit(score, w) ==
    IF score = ScoreOne THEN w
    ELSE IF score = -ScoreOne THEN DoubleNeg(w)
    ELSE DoubleZero

IsUnitScores(scores) ==
    \A f \in DOMAIN scores : scores[f] \in {-ScoreOne, 0, ScoreOne}

DoubleWeightedSum(scores, weights) ==
    DoubleAdd(DoubleAdd(DoubleAdd(DoubleAdd(
        DoubleTimesUnit(scores.technicalScore, DoubleOfWeight(weights.technical)),
        DoubleTimesUnit(scores.socialScore, DoubleOfWeight(weights.social))),
        DoubleTimesUnit(scores.telegramScore, DoubleOfWeight(weights.telegram))),
        DoubleTimesUnit(scores.indianMarketScore,
                        DoubleOfWeight(weights.indianMarket))),
        DoubleTimesUnit(scores.newsScore, DoubleOfWeight(weights.news)))

\* Math.max(-1, Math.min(1, x)) on doubles
DoubleClampUnit(d) ==
    IF DoubleLess(DoubleOne, d) THEN DoubleOne
    ELSE IF DoubleLess(d, DoubleNeg(DoubleOne)) THEN DoubleNeg(DoubleOne)
    ELSE d

NoDouble == [exact |-> FALSE, sum |-> DoubleZero, finalScore |-> DoubleZero]

\* calculateWeightedScore in doubles, for the scores whose products are exact
calculateWeightedScoreDouble(scores, sym) ==
    IF IsUnitScores(scores)
    THEN LET weightedScore == DoubleWeightedSum(scores, WeightsFor(sym))
         IN  [exact |-> TRUE, sum |-> weightedScore,
              finalScore |-> DoubleClampUnit(weightedScore)]
    ELSE NoDouble

DirectionBand == (15 * ScoreOne) \div 100

determineDirectionInclusiveBand(finalScore) ==
    LET absScore == MathAbs(finalScore)
        confidence == MathMin(100 * PctOne, MathMax(50 * PctOne, absScore))
    IN  IF ~JsLt(finalScore, DirectionBand) /\ ToNumber(finalScore) # NaN
        THEN [direction |-> "BUY", confidence |-> confidence]
        ELSE IF JsLt(finalScore, -DirectionBand)
        THEN [direction |-> "SELL", confidence |-> confidence]
        ELSE [direction |-> "HOLD",
              confidence |-> MathMin(confidence, 60 * PctOne)]

\* the confidence left as absScore * 100, without the floor of 50
determineDirectionNoFloor(finalScore) ==
    LET absScore == MathAbs(finalScore)
        confidence == MathMin(100 * PctOne, absScore)
    IN  IF JsGt(finalScore, DirectionBand)
        THEN [direction |-> "BUY", confidence |-> confidence]
        ELSE IF JsLt(finalScore, -DirectionBand)
        THEN [direction |-> "SELL", confidence |-> confidence]
        ELSE [direction |-> "HOLD",
              confidence |-> MathMin(confidence, 60 * PctOne)]

determineDirectionAndConfidence(finalScore) ==
    LET absScore == MathAbs(finalScore)
        \* absScore * 100, read in the percentage unit
        confidence == MathMin(100 * PctOne, MathMax(50 * PctOne, absScore))
    IN  IF JsGt(finalScore, DirectionBand)
        THEN [direction |-> "BUY", confidence |-> confidence]
        ELSE IF JsLt(finalScore, -DirectionBand)
        THEN [direction |-> "SELL", confidence |-> confidence]
        ELSE [direction |-> "HOLD",
              confidence |-> MathMin(confidence, 60 * PctOne)]

----------------------------------------------------------------------------
(* The five source scorers *)

Field(rec, name) == IF name \in DOMAIN rec THEN rec[name] ELSE Undefined

\* Math.tanh on a number of 1/ScoreOne units (piecewise linear between the
\* values of tanh at 0, 0.5, 1, 2 and 3)
MathTanh(x) ==
    IF ToNumber(x) = NaN THEN NaN
    ELSE LET a == MathAbs(x)
             t == IF a <= 5000 THEN (a * 4621) \div 5000
                  ELSE IF a <= 10000 THEN 4621 + ((a - 5000) * 2995) \div 5000
                  ELSE IF a <= 20000 THEN 7616 + ((a - 10000) * 2024) \div 10000
                  ELSE IF a <= 30000 THEN 9640 + ((a - 20000) * 311) \div 10000
                  ELSE ScoreOne
         IN  IF x < 0 THEN -t ELSE t

\* changePercent / 5, a percentage of 1/PctOne units to a plain number
JsDivBy5(x) ==
    IF ToNumber(x) = NaN THEN NaN ELSE (x * (ScoreOne \div PctOne)) \div 500

\* The candles of generateMockMarketData are drawn with Math.random(); of
\* the indicators calculateTechnicalIndicators computes from them the score
\* reads rsi only, so a draw is given by the RSI it leads to.
RsiDraws == {0, 20, 50, 98}

TechnicalIndicatorsOf(rsi) ==
    [rsi |-> JsOr(rsi, 50),
     macd |-> [value |-> 0, signal |-> 0, histogram |-> 0],
     trend |-> "neutral"]

getTechnicalScore(rsiDraw) ==
    LET indicators == TechnicalIndicatorsOf(rsiDraw)
        rsi == JsOr(Field(indicators, "rsi"), 50)
        macdSignal == JsOr(Field(indicators, "macdSignal"), 0)
        volumeProfile == JsOr(Field(indicators, "volumeProfile"), 0)
        rsiScore == ((50 - rsi) * ScoreOne) \div 50
        technicalScore == (rsiScore + macdSignal + volumeProfile) \div 3
    IN  [score |-> ClampUnit(technicalScore), mentions |-> 0]

Neutral == [score |-> 0, mentions |-> 0]

\* getSocialScore and getTelegramScore: answer is what getTrendingSymbols /
\* getTrendingFromTelegram does (throws, or a list in which the symbol's
\* entry is found or not)
getScraperScore(answer) ==
    IF answer.kind = "throws" THEN Neutral
    ELSE IF ~answer.found THEN Neutral
    ELSE [score |-> ClampUnit(answer.avgSentiment),
          mentions |-> answer.mentions]

getSocialScore(answer) == getScraperScore(answer)

getTelegramScore(answer) == getScraperScore(answer)

\* marketData.find(stock => stock.symbol.includes(symbol) ||
\*                          symbol.includes(stock.symbol))
FindStock(marketData, sym) ==
    LET hits == {k \in 1..Len(marketData) :
                    \/ Includes(marketData[k].symbol, sym)
                    \/ Includes(sym, marketData[k].symbol)}
    IN  IF hits = {} THEN 0 ELSE CHOOSE k \in hits : \A j \in hits : k <= j

getIndianMarketScore(sym, answer) ==
    IF ~IsIndianStock(sym) THEN Neutral
    ELSE LET marketData == answer.data
             k == FindStock(marketData, sym)
         IN  IF k = 0 THEN Neutral
             ELSE LET changePercent == Field(marketData[k], "changePercent")
                      normalizedScore == MathTanh(JsDivBy5(changePercent))
                  IN  [score |-> ClampUnit(normalizedScore), mentions |-> 0]

SentimentValue(sentiment) ==
    IF sentiment = "Bullish" THEN ScoreOne \div 2
    ELSE IF sentiment = "Bearish" THEN -(ScoreOne \div 2)
    ELSE 0

RECURSIVE SumSentiment(_)
SumSentiment(articles) ==
    IF articles = <<>> THEN 0
    ELSE SentimentValue(Head(articles).sentiment) + SumSentiment(Tail(articles))

getNewsScore(sym, news) ==
    LET relevantNews == SelectSeq(news, LAMBDA a : Includes(a.title, sym))
    IN  IF Len(relevantNews) = 0 THEN Neutral
        ELSE [score |-> ClampUnit(SumSentiment(relevantNews) \div Len(relevantNews)),
              mentions |-> 0]

----------------------------------------------------------------------------
(* The parts of a FusionSignal *)

calculateSentimentMomentum(socialScore, telegramScore) ==
    LET alignment == ScoreOne - MathAbs(socialScore - telegramScore)
        avgSentiment == (socialScore + telegramScore) \div 2
    IN  (alignment * MathAbs(avgSentiment)) \div ScoreOne

calculateVolumeIndicator(socialMentions, telegramMentions) ==
    LET totalMentions == socialMentions + telegramMentions
    IN  MathMin(ScoreOne, (totalMentions * ScoreOne) \div 100)

assessMarketConditions(data) ==
    LET totalMentions == data.socialMentions + data.telegramMentions
        sentimentConsistency == MathAbs(data.socialScore - data.telegramScore)
        signalStrength == MathAbs(data.technicalScore) + MathAbs(data.socialScore)
                          + MathAbs(data.telegramScore)
        \* avgSentiment > 0.2, both sides multiplied by 3
        sentimentSum == data.socialScore + data.telegramScore + data.technicalScore
    IN  [riskLevel |->
            IF totalMentions > 50 /\ sentimentConsistency < (3 * ScoreOne) \div 10
            THEN "LOW"
            ELSE IF totalMentions < 10 \/ sentimentConsistency > (7 * ScoreOne) \div 10
            THEN "HIGH"
            ELSE "MEDIUM",
         timeHorizon |->
            IF signalStrength > (15 * ScoreOne) \div 10 THEN "SHORT"
            ELSE IF signalStrength < (5 * ScoreOne) \div 10 THEN "LONG"
            ELSE "MEDIUM",
         marketCondition |->
            IF sentimentSum > 3 * ((2 * ScoreOne) \div 10) THEN "BULLISH"
            ELSE IF sentimentSum < -3 * ((2 * ScoreOne) \div 10) THEN "BEARISH"
            ELSE "NEUTRAL"]

\* The table of getMockCurrentPrice, prices in 1/10000 units; 0 is "no entry"
MockPrice(name) ==
    CASE name = <<"BTC">> -> 435000000
      [] name = <<"ETH">> -> 26500000
      [] name = <<"ADA">> -> 4800
      [] name = <<"SOL">> -> 980000
      [] name = <<"MATIC">> -> 8200
      [] name = <<"RELIANCE">> -> 28500000
      [] name = <<"TCS">> -> 42000000
      [] name = <<"HDFCBANK">> -> 16500000
      [] name = <<"INFY">> -> 18500000
      [] OTHER -> Undefined

\* symbol.replace(/USD|USDT|-EQ/g, ''): the alternation takes USD first, so
\* of USDT the T stays
RECURSIVE StripSuffixes(_)
StripSuffixes(sym) ==
    IF sym = <<>> THEN <<>>
    ELSE LET h == Head(sym)
             r == StripSuffixes(Tail(sym))
         IN  IF h = "USD" \/ h = "-EQ" THEN r
             ELSE IF h = "USDT" THEN <<"T">> \o r
             ELSE <<h>> \o r

\* the string a token sequence spells is a key of the table only when it is
\* one token
getMockCurrentPrice(sym) ==
    JsOr(MockPrice(sym), JsOr(MockPrice(StripSuffixes(sym)), 0))

\* x * p / 100 for a price x that is a multiple of 0.01
PriceTimes(x, p) == (x \div 100) * p

\* the SELL levels taken from the BUY branch
generateTradingParametersBuyOnly(sym, direction, confidence) ==
    LET currentPrice == getMockCurrentPrice(sym)
        positionSize ==
            IF ToNumber(confidence) = NaN THEN NaN
            ELSE LET tenths == (confidence + PctOne) \div (2 * PctOne)
                 IN  MathMin(50, MathMax(10, tenths))
    IN  IF currentPrice = 0
        THEN [suggestedEntry |-> Undefined,
              suggestedStopLoss |-> Undefined,
              suggestedTarget |-> Undefined,
              positionSize |-> Undefined]
        ELSE IF direction \in {"BUY", "SELL"}
        THEN [suggestedEntry |-> PriceTimes(currentPrice, 101),
              suggestedStopLoss |-> PriceTimes(currentPrice, 95),
              suggestedTarget |-> PriceTimes(currentPrice, 110),
              positionSize |-> positionSize]
        ELSE [suggestedEntry |-> Undefined,
              suggestedStopLoss |-> Undefined,
              suggestedTarget |-> Undefined,
              positionSize |-> positionSize]

\* Number(positionSize.toFixed(1)) is modelled in tenths; a value halfway
\* between two tenths goes to the upper one
generateTradingParameters(sym, direction, confidence) ==
    LET currentPrice == getMockCurrentPrice(sym)
        \* confidence / 20 rounded to one decimal, in tenths
        positionSize ==
            IF ToNumber(confidence) = NaN THEN NaN
            ELSE LET tenths == (confidence + PctOne) \div (2 * PctOne)
                 IN  MathMin(50, MathMax(10, tenths))
    IN  IF currentPrice = 0
        THEN [suggestedEntry |-> Undefined,
              suggestedStopLoss |-> Undefined,
              suggestedTarget |-> Undefined,
              positionSize |-> Undefined]
        ELSE IF direction = "BUY"
        THEN [suggestedEntry |-> PriceTimes(currentPrice, 101),
              suggestedStopLoss |-> PriceTimes(currentPrice, 95),
              suggestedTarget |-> PriceTimes(currentPrice, 110),
              positionSize |-> positionSize]
        ELSE IF direction = "SELL"
        THEN [suggestedEntry |-> PriceTimes(currentPrice, 99),
              suggestedStopLoss |-> PriceTimes(currentPrice, 105),
              suggestedTarget |-> PriceTimes(currentPrice, 90),
              positionSize |-> positionSize]
        ELSE [suggestedEntry |-> Undefined,
              suggestedStopLoss |-> Undefined,
              suggestedTarget |-> Undefined,
              positionSize |-> positionSize]

\* the reasons pushed by generateReasoning, in order, as tags, and the score
\* the last one prints
generateReasoning(data) ==
  [score |-> data.finalScore,
   reasons |->
    (IF MathAbs(data.technicalScore) > (3 * ScoreOne) \div 10
     THEN <<IF data.technicalScore > 0 THEN "technical bullish"
            ELSE "technical bearish">> ELSE <<>>)
    \o (IF data.socialMentions > 5
        THEN <<IF data.socialScore > 0 THEN "social positive"
               ELSE "social negative">> ELSE <<>>)
    \o (IF data.telegramMentions > 2
        THEN <<IF data.telegramScore > 0 THEN "telegram bullish"
               ELSE "telegram bearish">> ELSE <<>>)
    \o (IF JsOr(data.indianMarketScore, 0) # 0
           /\ JsGt(MathAbs(data.indianMarketScore), (2 * ScoreOne) \div 10)
        THEN <<IF data.indianMarketScore > 0 THEN "indian strength"
               ELSE "indian weakness">> ELSE <<>>)
    \o (IF MathAbs(data.newsScore) > (2 * ScoreOne) \div 10
        THEN <<IF data.newsScore > 0 THEN "news positive"
               ELSE "news negative">> ELSE <<>>)
    \o <<"combined score">>]

getUsedDataSources(availability) ==
    (IF availability.technicalData THEN <<"Technical Analysis">> ELSE <<>>)
    \o (IF availability.socialData THEN <<"Social Sentiment">> ELSE <<>>)
    \o (IF availability.telegramData THEN <<"Telegram Signals">> ELSE <<>>)
    \o (IF availability.indianMarketData THEN <<"Indian Market Data">> ELSE <<>>)
    \o (IF availability.newsData THEN <<"News Analysis">> ELSE <<>>)

ZeroScores ==
    [technicalScore |-> 0, socialScore |-> 0, telegramScore |-> 0,
     indianMarketScore |-> 0, newsScore |-> 0]

NoOut == [applied |-> FALSE, sum |-> 0, finalScore |-> 0,
          direction |-> "HOLD", confidence |-> 0, double |-> NoDouble]

----------------------------------------------------------------------------
(* generateFusionSignal: the five scorers are started together and joined  *)
(* by Promise.allSettled; each settles in a step of its own.               *)

Sources == {"technical", "social", "telegram", "indianMarket", "news"}

MaxCalls == 2

Answer(kind, found, avgSentiment, mentions) ==
    [kind |-> kind, found |-> found, avgSentiment |-> avgSentiment,
     mentions |-> mentions]

\* getTrendingSymbols(6): throws, never answers, or answers a list
SocialAnswers ==
    {Answer("throws", FALSE, 0, 0), Answer("never", FALSE, 0, 0),
     Answer("list", FALSE, 0, 0), Answer("list", TRUE, 6000, 60),
     Answer("list", TRUE, -15000, 3)}

\* getTrendingFromTelegram(6)
TelegramAnswers ==
    {Answer("throws", FALSE, 0, 0), Answer("never", FALSE, 0, 0),
     Answer("list", TRUE, 4000, 8)}

\* a MarketQuote as getEquityMarketData builds it (percentages in 1/PctOne)
MarketQuote(name, change, changePercent) ==
    [symbol |-> name, exchange |-> "NSE", price_change_24h |-> change,
     price_change_percent_24h |-> changePercent, market_type |-> "equity"]

\* getEquityMarketData(): never answers, or answers {data: [...]}; it
\* catches its own errors and then answers {success: false, data: []}
AngelAnswers ==
    {[kind |-> "never", data |-> <<>>],
     [kind |-> "data", data |-> <<>>],
     [kind |-> "data",
      data |-> <<MarketQuote(<<"NIFTY50">>, 40, 20),
                 MarketQuote(<<"RELIANCE">>, 7100, 250)>>]}

Article(title, sentiment) == [title |-> title, sentiment |-> sentiment]

\* storage.getNewsArticles(50)
NewsAnswers ==
    {<<>>,
     <<Article(<<"BTC", "RALLY">>, "Bullish")>>,
     <<Article(<<"RELIANCE", "-EQ", "FALLS">>, "Bearish"),
       Article(<<"RELIANCE", "GAINS">>, "Neutral")>>}

Envs == [social : SocialAnswers, telegram : TelegramAnswers,
         angel : AngelAnswers, news : NewsAnswers]

Pending == [status |-> "pending", value |-> Neutral]
Fulfilled(v) == [status |-> "fulfilled", value |-> v]
Rejected == [status |-> "rejected", value |-> Neutral]

AllPending == [s \in Sources |-> Pending]

IdleEnv ==
    [social |-> Answer("list", FALSE, 0, 0),
     telegram |-> Answer("list", TRUE, 4000, 8),
     angel |-> [kind |-> "data", data |-> <<>>], news |-> <<>>]

FusionIdle ==
    /\ symbol = <<"AAPL">>
    /\ env = IdleEnv
    /\ settled = AllPending
    /\ fpc = "idle"
    /\ fusionSignals = <<>>

\* a request arrives (POST /api/fusion/generate)
CallFusion ==
    /\ fpc = "idle"
    /\ \E sym \in Symbols, e \in Envs :
          /\ symbol' = sym
          /\ env' = e
    /\ settled' = AllPending
    /\ fpc' = "gathering"
    /\ UNCHANGED <<fusionSignals, scoreVars, btVars, appVars,
                   dayVars, clientVars>>

\* the same request again, the collaborators answering as before
RepeatFusion ==
    /\ fpc = "returned"
    /\ Len(fusionSignals) < MaxCalls
    /\ settled' = AllPending
    /\ fpc' = "gathering"
    /\ UNCHANGED <<symbol, env, fusionSignals, scoreVars, btVars, appVars,
                   dayVars, clientVars>>

\* the call source s waits for completes (by answering or by throwing); no
\* timer is armed that would complete it otherwise.  A symbol that is no
\* Indian stock is answered without asking the broker.
Completes(s) ==
    CASE s = "social" -> env.social.kind # "never"
      [] s = "telegram" -> env.telegram.kind # "never"
      [] s = "indianMarket" -> env.angel.kind # "never" \/ ~IsIndianStock(symbol)
      [] OTHER -> TRUE

Settle(s, promise) ==
    /\ fpc = "gathering"
    /\ settled[s].status = "pending"
    /\ Completes(s)
    /\ settled' = [settled EXCEPT ![s] = promise]
    /\ UNCHANGED <<symbol, env, fpc, fusionSignals, scoreVars, btVars, appVars,
                   dayVars, clientVars>>

\* each scorer catches whatever its body throws and answers the neutral
\* score, so its promise is fulfilled
TechnicalPromise(rsiDraw) == Fulfilled(getTechnicalScore(rsiDraw))

SocialPromise(answer) == Fulfilled(getSocialScore(answer))

TelegramPromise(answer) == Fulfilled(getTelegramScore(answer))

IndianMarketPromise(sym, answer) == Fulfilled(getIndianMarketScore(sym, answer))

NewsPromise(sym, news) == Fulfilled(getNewsScore(sym, news))

SettleTechnical ==
    \E rsiDraw \in RsiDraws : Settle("technical", TechnicalPromise(rsiDraw))

SettleSocial == Settle("social", SocialPromise(env.social))

SettleTelegram == Settle("telegram", TelegramPromise(env.telegram))

SettleIndianMarket ==
    Settle("indianMarket", IndianMarketPromise(symbol, env.angel))

SettleNews == Settle("news", NewsPromise(symbol, env.news))

ScoreOf(p) == IF p.status = "fulfilled" THEN p.value.score ELSE 0
MentionsOf(p) == IF p.status = "fulfilled" THEN p.value.mentions ELSE 0

FusionSignalOf(sym, results, stamp) ==
    LET technicalScore == ScoreOf(results["technical"])
        socialScore == ScoreOf(results["social"])
        telegramScore == ScoreOf(results["telegram"])
        indianMarketScore == ScoreOf(results["indianMarket"])
        newsScore == ScoreOf(results["news"])
        socialMentions == MentionsOf(results["social"])
        telegramMentions == MentionsOf(results["telegram"])
        scores == [technicalScore |-> technicalScore,
                   socialScore |-> socialScore,
                   telegramScore |-> telegramScore,
                   indianMarketScore |-> indianMarketScore,
                   newsScore |-> newsScore]
        finalScore == calculateWeightedScore(scores, sym)
        dc == determineDirectionAndConfidence(finalScore)
        cond == assessMarketConditions(
                    [technicalScore |-> technicalScore,
                     socialScore |-> socialScore,
                     telegramScore |-> telegramScore,
                     socialMentions |-> socialMentions,
                     telegramMentions |-> telegramMentions])
        tradingParams == generateTradingParameters(sym, dc.direction, dc.confidence)
    IN  [id |-> stamp,
         symbol |-> sym,
         direction |-> dc.direction,
         confidence |-> dc.confidence,
         finalScore |-> finalScore,
         reasoning |-> generateReasoning(
                          [technicalScore |-> technicalScore,
                           socialScore |-> socialScore,
                           telegramScore |-> telegramScore,
                           indianMarketScore |-> indianMarketScore,
                           newsScore |-> newsScore,
                           socialMentions |-> socialMentions,
                           telegramMentions |-> telegramMentions,
                           finalScore |-> finalScore]),
         timestamp |-> stamp,
         technicalScore |-> technicalScore,
         socialScore |-> socialScore,
         telegramScore |-> telegramScore,
         indianMarketScore |-> indianMarketScore,
         newsScore |-> newsScore,
         socialMentions |-> socialMentions,
         telegramMentions |-> telegramMentions,
         sentimentMomentum |-> calculateSentimentMomentum(socialScore, telegramScore),
         volumeIndicator |-> calculateVolumeIndicator(socialMentions, telegramMentions),
         riskLevel |-> cond.riskLevel,
         timeHorizon |-> cond.timeHorizon,
         marketCondition |-> cond.marketCondition,
         suggestedEntry |-> tradingParams.suggestedEntry,
         suggestedStopLoss |-> tradingParams.suggestedStopLoss,
         suggestedTarget |-> tradingParams.suggestedTarget,
         positionSize |-> tradingParams.positionSize,
         dataSourcesUsed |-> getUsedDataSources(
             [technicalData |-> results["technical"].status = "fulfilled",
              socialData |-> results["social"].status = "fulfilled",
              telegramData |-> results["telegram"].status = "fulfilled",
              indianMarketData |-> results["indianMarket"].status = "fulfilled",
              newsData |-> results["news"].status = "fulfilled"]),
         lastUpdated |-> stamp,
         isActive |-> TRUE]

\* Promise.allSettled resolves once none of the five is pending; the signal
\* is built, saved and returned.  The request's Date and UUID are fresh:
\* they are the number of the request.
ReturnFusionSignal ==
    /\ fpc = "gathering"
    /\ \A s \in Sources : settled[s].status # "pending"
    /\ fusionSignals' =
           Append(fusionSignals,
                  FusionSignalOf(symbol, settled, Len(fusionSignals) + 1))
    /\ fpc' = "returned"
    /\ UNCHANGED <<symbol, env, settled, scoreVars, btVars, appVars,
                   dayVars, clientVars>>

----------------------------------------------------------------------------
(* The scoring functions applied to every argument of a grid.              *)

ScoreGrid == {-ScoreOne, -5000, 0, 1000, 4000, 5000, 6000, ScoreOne}

ScoreTuples ==
    [technicalScore : ScoreGrid, socialScore : ScoreGrid,
     telegramScore : ScoreGrid, indianMarketScore : ScoreGrid,
     newsScore : ScoreGrid]

ScoreIdle ==
    /\ fnArg = [fn |-> "none", symbol |-> <<"AAPL">>, scores |-> ZeroScores,
                finalScore |-> 0]
    /\ fnOut = NoOut

\* generateFusionSignal's two steps on the five scores: the weighted score,
\* then its direction
ApplyWeighted ==
    /\ fnArg.fn = "calculateWeightedScore"
    /\ ~fnOut.applied
    /\ LET finalScore == calculateWeightedScore(fnArg.scores, fnArg.symbol)
           dc == determineDirectionAndConfidence(finalScore)
       IN  fnOut' = [applied |-> TRUE,
                     sum |-> WeightedSum(fnArg.scores, WeightsFor(fnArg.symbol)),
                     finalScore |-> finalScore,
                     direction |-> dc.direction,
                     confidence |-> dc.confidence,
                     double |-> calculateWeightedScoreDouble(fnArg.scores,
                                                             fnArg.symbol)]
    /\ UNCHANGED <<fnArg, fusionVars, btVars, appVars,
                   dayVars, clientVars>>

ApplyDirection ==
    /\ fnArg.fn = "determineDirectionAndConfidence"
    /\ ~fnOut.applied
    /\ LET dc == determineDirectionAndConfidence(fnArg.finalScore)
       IN  fnOut' = [applied |-> TRUE, sum |-> fnArg.finalScore,
                     finalScore |-> fnArg.finalScore,
                     direction |-> dc.direction,
                     confidence |-> dc.confidence,
                     double |-> NoDouble]
    /\ UNCHANGED <<fnArg, fusionVars, btVars, appVars,
                   dayVars, clientVars>>

\* the symbols generateTradingParameters is applied to
ParameterSymbols ==
    {<<"BTC">>, <<"ADA">>, <<"RELIANCE", "-EQ">>, <<"BTC", "USDT">>}

\* generateFusionSignal from the final score on: the direction and the
\* confidence, and the trading parameters made from them
ApplyTradingParameters ==
    /\ fnArg.fn = "generateTradingParameters"
    /\ ~fnOut.applied
    /\ LET dc == determineDirectionAndConfidence(fnArg.finalScore)
       IN  fnOut' = [applied |-> TRUE, sum |-> fnArg.finalScore,
                     finalScore |-> fnArg.finalScore,
                     direction |-> dc.direction,
                     confidence |-> dc.confidence,
                     double |-> NoDouble,
                     tradingParams |->
                         generateTradingParameters(fnArg.symbol, dc.direction,
                                                   dc.confidence)]
    /\ UNCHANGED <<fnArg, fusionVars, btVars, appVars,
                   dayVars, clientVars>>

----------------------------------------------------------------------------
(* BacktestingService.runBacktest.  Money and prices are integers.  The    *)
(* signal of a step is what generateEnhancedSignal answers for the window; *)
(* the loop is modelled for every answer of the EnhancedSignal interface.  *)

Window == 50
MaxTail == 4

Prices == {90, 100, 104, 111}
Balances == {50, 10000}

Candle(close, index) == [close |-> close, timestamp |-> index]

\* candles 0..Window-1 only feed the first windows
WarmUp == [k \in 1..Window |-> Candle(100, k - 1)]

RECURSIVE Tails(_)
Tails(n) ==
    IF n = 0 THEN {<<>>}
    ELSE LET shorter == Tails(n - 1)
         IN  shorter \cup {Append(t, p) : t \in {u \in shorter : Len(u) = n - 1},
                                          p \in Prices}

Histories ==
    {WarmUp \o [k \in 1..Len(t) |-> Candle(t[k], Window + k - 1)] :
        t \in Tails(MaxTail) \ {<<>>}}

\* historicalData[i] of the code (indices from 0)
At(data, index) == data[index + 1]

\* what generateEnhancedSignal answers when its analysis throws: the catch
\* block's signal, so that the call itself never fails
FailedSignal ==
    [action |-> "HOLD", confidence |-> 30 * PctOne,
     reasoning |-> <<"Insufficient data for enhanced analysis">>]

EnhancedSignals ==
    {[action |-> "BUY", confidence |-> 70 * PctOne,
      reasoning |-> <<"Strong uptrend confirmed">>],
     [action |-> "SELL", confidence |-> 70 * PctOne,
      reasoning |-> <<"Downtrend confirmed">>],
     [action |-> "HOLD", confidence |-> 50 * PctOne,
      reasoning |-> <<"Mixed signals suggest waiting for clearer direction">>],
     FailedSignal}

NoPosition == [type |-> "none", price |-> 0, size |-> 0]
NoSignal == [action |-> "HOLD", confidence |-> 0, reasoning |-> <<>>]
NoResult == [totalTrades |-> 0, winningTrades |-> 0, losingTrades |-> 0,
             winRate |-> 0, totalReturn |-> 0, maxDrawdown |-> 0,
             averageReturn |-> 0]

BacktestIdle ==
    /\ historicalData = <<>>
    /\ initialBalance = 0
    /\ i = 0
    /\ currentBalance = 0
    /\ position = NoPosition
    /\ trades = <<>>
    /\ maxBalance = 0
    /\ maxDrawdown = 0
    /\ lastSignal = NoSignal
    /\ opened = 0
    /\ openedAt = 0
    /\ btpc = "idle"
    /\ result = NoResult

\* the state on entry of the loop, for every history and initial balance
RunStart(histories) ==
    /\ historicalData \in histories
    /\ initialBalance \in Balances
    /\ i = Window
    /\ currentBalance = initialBalance
    /\ position = NoPosition
    /\ trades = <<>>
    /\ maxBalance = initialBalance
    /\ maxDrawdown = 0
    /\ lastSignal = NoSignal
    /\ opened = 0
    /\ openedAt = 0
    /\ btpc = "loop"
    /\ result = NoResult

BacktestStart == RunStart(Histories)

\* !position.type
NoneOpenAlways(pos) == TRUE

NoneOpen(pos) == pos.type = "none"

\* the stop-loss and take-profit tests left out
shouldCloseOnSignalOnly(signal, pos, currentPrice) ==
    \/ pos.type = "LONG" /\ signal.action = "SELL"
    \/ pos.type = "SHORT" /\ signal.action = "BUY"

shouldClosePosition(signal, pos, currentPrice) ==
    \/ pos.type = "LONG" /\ signal.action = "SELL"
    \/ pos.type = "SHORT" /\ signal.action = "BUY"
    \/ pos.type = "LONG" /\ 100 * currentPrice < 95 * pos.price
    \/ pos.type = "SHORT" /\ 100 * currentPrice > 105 * pos.price
    \/ pos.type = "LONG" /\ 10 * currentPrice > 11 * pos.price
    \/ pos.type = "SHORT" /\ 10 * currentPrice < 9 * pos.price

\* Math.floor(currentBalance * 0.95 / currentPrice)
PositionSize(balance, price) == (balance * 95) \div (100 * price)

\* (maxBalance - currentBalance) / maxBalance, in 1/ScoreOne units
Drawdown(maxBal, balance) == ((maxBal - balance) * ScoreOne) \div maxBal

OpenLong(currentPrice) ==
    LET size == PositionSize(currentBalance, currentPrice)
    IN  /\ position' = [type |-> "LONG", price |-> currentPrice, size |-> size]
        /\ currentBalance' = currentBalance - size * currentPrice
        /\ opened' = opened + 1
        /\ openedAt' = i
        /\ UNCHANGED <<trades, maxBalance, maxDrawdown>>

OpenShort(currentPrice) ==
    LET size == PositionSize(currentBalance, currentPrice)
    IN  /\ position' = [type |-> "SHORT", price |-> currentPrice, size |-> size]
        /\ opened' = opened + 1
        /\ openedAt' = i
        /\ UNCHANGED <<currentBalance, trades, maxBalance, maxDrawdown>>

ClosePosition(signal, nextPrice) ==
    LET exitPrice == nextPrice
        tradeReturn == IF position.type = "LONG"
                       THEN (exitPrice - position.price) * position.size
                       ELSE (position.price - exitPrice) * position.size
        balance == IF position.type = "LONG"
                   THEN currentBalance + position.size * exitPrice
                   ELSE currentBalance + tradeReturn
        newMax == IF balance > maxBalance THEN balance ELSE maxBalance
        drawdown == Drawdown(newMax, balance)
    IN  /\ currentBalance' = balance
        /\ trades' = Append(trades,
              [entryDate |-> At(historicalData, i).timestamp,
               exitDate |-> At(historicalData, i + 1).timestamp,
               action |-> IF position.type = "LONG" THEN "BUY" ELSE "SELL",
               entryPrice |-> position.price,
               exitPrice |-> exitPrice,
               return |-> tradeReturn,
               confidence |-> signal.confidence,
               reasoning |-> signal.reasoning])
        /\ maxBalance' = newMax
        /\ maxDrawdown' = IF drawdown > maxDrawdown THEN drawdown ELSE maxDrawdown
        /\ position' = NoPosition
        /\ UNCHANGED <<opened, openedAt>>

\* one pass of the loop body, for the signal the generator answered
LoopBody(signal) ==
    LET currentPrice == At(historicalData, i).close
        nextPrice == At(historicalData, i + 1).close
    IN  /\ lastSignal' = signal
        /\ i' = i + 1
        /\ IF signal.action = "BUY" /\ NoneOpen(position)
           THEN OpenLong(currentPrice)
           ELSE IF signal.action = "SELL" /\ NoneOpen(position)
           THEN OpenShort(currentPrice)
           ELSE IF position.type # "none"
                   /\ shouldClosePosition(signal, position, currentPrice)
           THEN ClosePosition(signal, nextPrice)
           ELSE UNCHANGED <<currentBalance, position, trades, maxBalance,
                            maxDrawdown, opened, openedAt>>

BacktestStep ==
    /\ btpc = "loop"
    /\ i < Len(historicalData) - 1
    /\ \E signal \in EnhancedSignals : LoopBody(signal)
    /\ UNCHANGED <<historicalData, initialBalance, btpc, result, scoreVars,
                   fusionVars, appVars,
                   dayVars, clientVars>>

\* trades.filter(t => t.return > 0).length
CountWinning(ts) == Cardinality({k \in 1..Len(ts) : ts[k].return > 0})

\* trades.filter(t => t.return < 0).length
CountLosing(ts) == Cardinality({k \in 1..Len(ts) : ts[k].return < 0})

RECURSIVE SumReturns(_)
SumReturns(ts) ==
    IF ts = <<>> THEN 0 ELSE Head(ts).return + SumReturns(Tail(ts))

\* (winningTrades / totalTrades) * 100 evaluated without the guard
winRateUnguarded(winningTrades, totalTrades) ==
    IF totalTrades = 0 THEN NaN
    ELSE (winningTrades * 100 * PctOne) \div totalTrades

\* totalTrades > 0 ? (winningTrades / totalTrades) * 100 : 0
winRateOf(winningTrades, totalTrades) ==
    IF totalTrades > 0
    THEN (winningTrades * 100 * PctOne) \div totalTrades
    ELSE 0

BacktestResultOf(ts, balance, initial, drawdown) ==
    LET totalTrades == Len(ts)
        winningTrades == CountWinning(ts)
        losingTrades == CountLosing(ts)
    IN  [totalTrades |-> totalTrades,
         winningTrades |-> winningTrades,
         losingTrades |-> losingTrades,
         winRate |-> winRateOf(winningTrades, totalTrades),
         totalReturn |-> ((balance - initial) * 100 * PctOne) \div initial,
         maxDrawdown |-> drawdown,
         averageReturn |-> IF totalTrades > 0
                           THEN (SumReturns(ts) * 100) \div totalTrades
                           ELSE 0]

\* the loop is over: the result is computed and returned
BacktestFinish ==
    /\ btpc = "loop"
    /\ ~(i < Len(historicalData) - 1)
    /\ result' = BacktestResultOf(trades, currentBalance, initialBalance,
                                  maxDrawdown)
    /\ btpc' = "done"
    /\ UNCHANGED <<historicalData, initialBalance, i, currentBalance,
                   position, trades, maxBalance, maxDrawdown, lastSignal,
                   opened, openedAt, scoreVars, fusionVars, appVars,
                   dayVars, clientVars>>

----------------------------------------------------------------------------
(* runBacktest on closes that lie on and around the stop and the target of *)
(* a position entered at 100: 95 and 110 are exactly 5% and 10% away.      *)

ThresholdPrices == {90, 95, 100, 110}

RECURSIVE ThresholdTails(_)
ThresholdTails(n) ==
    IF n = 0 THEN {<<>>}
    ELSE LET shorter == ThresholdTails(n - 1)
         IN  shorter \cup
             {Append(t, p) : t \in {u \in shorter : Len(u) = n - 1},
                             p \in ThresholdPrices}

ThresholdHistories ==
    {WarmUp \o [k \in 1..Len(t) |-> Candle(t[k], Window + k - 1)] :
        t \in ThresholdTails(MaxTail) \ {<<>>}}

ThresholdStart == RunStart(ThresholdHistories)

----------------------------------------------------------------------------
(* runBacktest on strictly rising closes, the generator answering BUY for  *)
(* every window.                                                           *)

RisingPrices == {90, 95, 100, 104, 111, 125}

\* the candles before index Window rise as well
RisingWarmUp == [k \in 1..Window |-> Candle(40 + k - 1, k - 1)]

StrictlyRising(data) ==
    \A k \in 1..(Len(data) - 1) : data[k].close < data[k + 1].close

RECURSIVE RisingTails(_)
RisingTails(n) ==
    IF n = 0 THEN {<<>>}
    ELSE LET shorter == RisingTails(n - 1)
         IN  shorter \cup
             {Append(t, p) : t \in {u \in shorter : Len(u) = n - 1},
                             p \in RisingPrices}

RisingHistories ==
    {h \in {RisingWarmUp \o [k \in 1..Len(t) |-> Candle(t[k], Window + k - 1)] :
                t \in RisingTails(MaxTail) \ {<<>>}} : StrictlyRising(h)}

BuySignal ==
    [action |-> "BUY", confidence |-> 70 * PctOne,
     reasoning |-> <<"Strong uptrend confirmed">>]

BullishStart == RunStart(RisingHistories)

\* one iteration, the generator answering BUY
BullishStep ==
    /\ btpc = "loop"
    /\ i < Len(historicalData) - 1
    /\ LoopBody(BuySignal)
    /\ UNCHANGED <<historicalData, initialBalance, btpc, result, scoreVars,
                   fusionVars, appVars,
                   dayVars, clientVars>>

----------------------------------------------------------------------------
(* EnhancedSignalGenerator.  Prices are whole numbers, RSI and percentages *)
(* are in 1/PctOne, scores and MACD values in 1/ScoreOne.  The indicator   *)
(* library (RSI, MACD, SMA, EMA, BollingerBands) is outside the            *)
(* repository: the last values it computes are drawn from LibraryDraws.    *)

MinCloses == 50
SimplifiedBelow == 20
MaxCandles == 51

MarketDataPoint(close) == [close |-> close]

\* a series of n candles closing at 1000
Series(n) == [k \in 1..n |-> MarketDataPoint(1000)]

CurrentPrices == {900, 950, 1000, 1050, 1100}

Macd(value, signal, histogram) ==
    [MACD |-> value, signal |-> signal, histogram |-> histogram]

Bands(upper, middle, lower) ==
    [upper |-> upper, middle |-> middle, lower |-> lower]

Averages(sma20, sma50, ema12, ema26) ==
    [sma20 |-> sma20, sma50 |-> sma50, ema12 |-> ema12, ema26 |-> ema26]

\* the last element of each array the library returns
MacdDraws ==
    {Macd(0, 0, 0), Macd(12000, 4000, 8000), Macd(-12000, -4000, -8000)}

AverageDraws ==
    {Averages(980, 950, 990, 970), Averages(1020, 1050, 1010, 1030),
     Averages(1000, 1000, 1000, 1000)}

BandDraws ==
    {Bands(1020, 1000, 980), Bands(1200, 1000, 800), Bands(1000, 1000, 1000),
     Bands(1400, 1200, 1000), Bands(1000, 800, 600)}

LibraryDraws ==
    [rsi : {0, 2000, 5000, 7800, 10000}, macd : MacdDraws,
     averages : AverageDraws, bands : BandDraws]

NeutralDraw ==
    [rsi |-> 5000, macd |-> Macd(0, 0, 0),
     averages |-> Averages(1000, 1000, 1000, 1000),
     bands |-> Bands(1000, 1000, 1000)]

NoIndicators ==
    [rsi |-> 0, macd |-> [value |-> 0, signal |-> 0, histogram |-> 0],
     sma20 |-> 0, sma50 |-> 0, ema12 |-> 0, ema26 |-> 0,
     bollingerBands |-> Bands(0, 0, 0), trend |-> "neutral"]

InsufficientDataBelow20(closes) == Len(closes) < SimplifiedBelow

\* if (closes.length < 50) throw
InsufficientData(closes) == Len(closes) < MinCloses

Closes(marketData) == [k \in 1..Len(marketData) |-> marketData[k].close]

Thrown(message) == [threw |-> TRUE, error |-> message, indicators |-> NoIndicators]

Returned(indicators) == [threw |-> FALSE, error |-> "", indicators |-> indicators]

calculateTechnicalIndicators(marketData, lib) ==
    LET closes == Closes(marketData)
    IN  IF InsufficientData(closes)
        THEN Thrown("Insufficient historical data for technical analysis")
        ELSE LET currentRSI == JsOr(lib.rsi, 50 * PctOne)
                 macdValue == JsOr(lib.macd.MACD, 0)
                 macdSignal == JsOr(lib.macd.signal, 0)
                 macdHistogram == JsOr(lib.macd.histogram, 0)
                 last == closes[Len(closes)]
                 currentSMA20 == JsOr(lib.averages.sma20, last)
                 currentSMA50 == JsOr(lib.averages.sma50, last)
                 currentEMA12 == JsOr(lib.averages.ema12, last)
                 currentEMA26 == JsOr(lib.averages.ema26, last)
                 currentPrice == last
                 trend ==
                     IF currentEMA12 > currentEMA26 /\ currentPrice > currentSMA20
                        /\ macdValue > 0
                     THEN "bullish"
                     ELSE IF currentEMA12 < currentEMA26
                             /\ currentPrice < currentSMA20 /\ macdValue < 0
                     THEN "bearish"
                     ELSE "neutral"
             IN  Returned(
                   [rsi |-> currentRSI,
                    macd |-> [value |-> macdValue, signal |-> macdSignal,
                              histogram |-> macdHistogram],
                    sma20 |-> currentSMA20, sma50 |-> currentSMA50,
                    ema12 |-> currentEMA12, ema26 |-> currentEMA26,
                    bollingerBands |-> lib.bands,
                    trend |-> trend])

\* an article of the news list; Undefined marks an absent property
NewsItem(sentimentScore, relevanceScore) ==
    [sentimentScore |-> sentimentScore, relevanceScore |-> relevanceScore]

NewsLists ==
    {<<>>,
     <<NewsItem(9000, ScoreOne)>>,
     <<NewsItem(1000, Undefined)>>,
     <<NewsItem(Undefined, ScoreOne)>>}

RECURSIVE TotalSentiment(_)
TotalSentiment(articles) ==
    IF articles = <<>> THEN 0
    ELSE LET article == Head(articles)
             normalizedScore == (article.sentimentScore - ScoreOne \div 2) * 2
             relevance == JsOr(article.relevanceScore, ScoreOne \div 2)
         IN  (IF article.sentimentScore # Undefined
              THEN (normalizedScore * relevance) \div ScoreOne ELSE 0)
             + TotalSentiment(Tail(articles))

RelevantCount(articles) ==
    Cardinality({k \in 1..Len(articles) :
                    articles[k].sentimentScore # Undefined})

calculateNewsScore(newsArticles) ==
    IF Len(newsArticles) = 0 THEN 0
    ELSE IF RelevantCount(newsArticles) > 0
    THEN TotalSentiment(newsArticles) \div RelevantCount(newsArticles)
    ELSE 0

\* bbPosition < 0.2 and bbPosition > 0.8, where bbPosition is
\* (currentPrice - lower) / (upper - lower): a zero width gives +Infinity,
\* -Infinity or NaN
BbBelow(currentPrice, bands) ==
    LET width == bands.upper - bands.lower
        offset == currentPrice - bands.lower
    IN  IF width > 0 THEN 10 * offset < 2 * width
        ELSE IF width < 0 THEN 10 * offset > 2 * width
        ELSE offset < 0

BbAbove(currentPrice, bands) ==
    LET width == bands.upper - bands.lower
        offset == currentPrice - bands.lower
    IN  IF width > 0 THEN 10 * offset > 8 * width
        ELSE IF width < 0 THEN 10 * offset < 8 * width
        ELSE offset > 0

RsiTerm(rsi) ==
    IF rsi < 30 * PctOne THEN (8 * ScoreOne) \div 10
    ELSE IF rsi > 70 * PctOne THEN -((8 * ScoreOne) \div 10)
    ELSE ((50 * PctOne - rsi) * ScoreOne) \div (50 * PctOne)

MacdTerm(macd) ==
    IF macd.value > macd.signal /\ macd.histogram > 0 THEN (7 * ScoreOne) \div 10
    ELSE IF macd.value < macd.signal /\ macd.histogram < 0
    THEN -((7 * ScoreOne) \div 10)
    ELSE 0

AverageTerm(indicators, currentPrice) ==
    IF currentPrice > indicators.sma20 /\ indicators.sma20 > indicators.sma50
    THEN (6 * ScoreOne) \div 10
    ELSE IF currentPrice < indicators.sma20 /\ indicators.sma20 < indicators.sma50
    THEN -((6 * ScoreOne) \div 10)
    ELSE 0

BandTerm(indicators, currentPrice) ==
    IF BbBelow(currentPrice, indicators.bollingerBands) THEN (5 * ScoreOne) \div 10
    ELSE IF BbAbove(currentPrice, indicators.bollingerBands)
    THEN -((5 * ScoreOne) \div 10)
    ELSE 0

TrendTerm(trend) ==
    IF trend = "bullish" THEN (4 * ScoreOne) \div 10
    ELSE IF trend = "bearish" THEN -((4 * ScoreOne) \div 10)
    ELSE 0

\* how many of the five terms are not 0, the RSI term always counted
TechnicalFactorsFiring(indicators, currentPrice) ==
    1 + Cardinality({t \in {<<2, MacdTerm(indicators.macd)>>,
                            <<3, AverageTerm(indicators, currentPrice)>>,
                            <<4, BandTerm(indicators, currentPrice)>>,
                            <<5, TrendTerm(indicators.trend)>>} : t[2] # 0})

\* factors++ after each of the five terms, whatever the term added
TechnicalFactors(indicators, currentPrice) == 5

TechnicalTermSum(indicators, currentPrice) ==
    RsiTerm(indicators.rsi) + MacdTerm(indicators.macd)
    + AverageTerm(indicators, currentPrice)
    + BandTerm(indicators, currentPrice) + TrendTerm(indicators.trend)

\* exact for the sums that are multiples of 5 / ScoreOne
JsDivide(a, b) == IF b = 0 THEN NaN ELSE IF a < 0 THEN -((-a) \div b) ELSE a \div b

calculateTechnicalScore(indicators, currentPrice) ==
    JsDivide(TechnicalTermSum(indicators, currentPrice),
             TechnicalFactors(indicators, currentPrice))

\* technicalScore * 0.5 + newsScore * 0.3 + forecastScore * 0.2, times 10
CombinedTimes10(technicalScore, newsScore, forecastScore) ==
    5 * technicalScore + 3 * newsScore + 2 * forecastScore

ensembleSignal(technicalScore, newsScore, forecastScore) ==
    LET times10 == CombinedTimes10(technicalScore, newsScore, forecastScore)
        combinedScore == JsDivide(times10, 10)
    IN  IF times10 > 4 * ScoreOne
        THEN [action |-> "BUY",
              confidence |-> MathMin(combinedScore, 95 * PctOne),
              combinedScore |-> combinedScore]
        ELSE IF times10 < -4 * ScoreOne
        THEN [action |-> "SELL",
              confidence |-> MathMin(MathAbs(combinedScore), 95 * PctOne),
              combinedScore |-> combinedScore]
        ELSE [action |-> "HOLD",
              confidence |-> 50 * PctOne + MathAbs(combinedScore) \div 2,
              combinedScore |-> combinedScore]

calculateRiskLevel(indicators, combinedScore) ==
    LET riskFactors ==
            (IF indicators.rsi > 80 * PctOne \/ indicators.rsi < 20 * PctOne
             THEN 1 ELSE 0)
            + (IF 10 * MathAbs(combinedScore) < 3 * ScoreOne THEN 1 ELSE 0)
            + (IF MathAbs(indicators.macd.histogram) > ScoreOne THEN 1 ELSE 0)
    IN  IF riskFactors >= 2 THEN "HIGH"
        ELSE IF riskFactors = 1 THEN "MEDIUM"
        ELSE "LOW"

\* prices of the targets in 1/1000 of the price unit
calculatePriceTargets(currentPrice, action, indicators) ==
    LET bands == indicators.bollingerBands
        spread == MathAbs(bands.upper - bands.lower)
        \* currentPrice * volatility * factor, factor in tenths
        Part(factor) == JsDivide(currentPrice * spread * factor * 100, bands.middle)
    IN  IF bands.middle = 0
        THEN [targetPrice |-> NaN, stopLoss |-> NaN]
        ELSE IF action = "BUY"
        THEN [targetPrice |-> currentPrice * 1000 + Part(15),
              stopLoss |-> currentPrice * 1000 - Part(8)]
        ELSE IF action = "SELL"
        THEN [targetPrice |-> currentPrice * 1000 - Part(15),
              stopLoss |-> currentPrice * 1000 + Part(8)]
        ELSE [targetPrice |-> currentPrice * 1000,
              stopLoss |-> currentPrice * 950]

\* the reasons, joined by "; " in the code
EnhancedReasoning(indicators, newsScore, action) ==
    LET When(c, text) == IF c THEN <<text>> ELSE <<>>
        reasons ==
            IF action = "BUY"
            THEN When(indicators.rsi < 35 * PctOne,
                      "RSI indicates oversold conditions")
                 \o When(indicators.macd.histogram > 0,
                         "MACD showing bullish momentum")
                 \o When(indicators.trend = "bullish", "Strong uptrend confirmed")
                 \o When(10 * newsScore > 2 * ScoreOne, "Positive news sentiment")
            ELSE IF action = "SELL"
            THEN When(indicators.rsi > 65 * PctOne,
                      "RSI indicates overbought conditions")
                 \o When(indicators.macd.histogram < 0,
                         "MACD showing bearish momentum")
                 \o When(indicators.trend = "bearish", "Downtrend confirmed")
                 \o When(10 * newsScore < -2 * ScoreOne, "Negative news sentiment")
            ELSE <<"Mixed signals suggest waiting for clearer direction">>
    IN  IF Len(reasons) > 0 THEN reasons
        ELSE <<"Technical analysis suggests current action">>

\* minConfidence = 0.65 is compared with a confidence given in percent
MinConfidence == (65 * PctOne) \div 100

filterSignalByML(signal) ==
    IF signal.confidence < MinConfidence THEN FALSE
    ELSE IF signal.action = "BUY" /\ signal.indicators.rsi > 75 * PctOne THEN FALSE
    ELSE IF signal.action = "SELL" /\ signal.indicators.rsi < 25 * PctOne THEN FALSE
    ELSE IF signal.action = "BUY"
            /\ 2 * signal.indicators.macd.histogram < -ScoreOne THEN FALSE
    ELSE IF signal.action = "SELL"
            /\ 2 * signal.indicators.macd.histogram > ScoreOne THEN FALSE
    ELSE TRUE

RECURSIVE SumCloses(_)
SumCloses(closes) ==
    IF closes = <<>> THEN 0 ELSE Head(closes) + SumCloses(Tail(closes))

\* ((currentPrice - avgPrice) / avgPrice) * 100 with avgPrice the mean of the
\* closes, in 1/PctOne; 0 / 0 is NaN for an empty series
PriceChange(closes, currentPrice) ==
    LET n == Len(closes)
        sum == SumCloses(closes)
    IN  IF n = 0 \/ sum = 0 THEN NaN
        ELSE JsDivide((currentPrice * n - sum) * 100 * PctOne, sum)

\* currentPrice * 1.02 and currentPrice * 0.98 (whole for the prices drawn)
MockBands(currentPrice) ==
    Bands(JsDivide(currentPrice * 102, 100), currentPrice,
          JsDivide(currentPrice * 98, 100))

\* targetPrice and stopLoss are in 1/1000 of the price unit
generateSimplifiedSignal(marketData, newsArticles, currentPrice) ==
    LET closes == Closes(marketData)
        priceChange == PriceChange(closes, currentPrice)
        avgPrice == IF Len(closes) = 0 THEN NaN
                    ELSE JsDivide(SumCloses(closes), Len(closes))
        newsScore == calculateNewsScore(newsArticles)
        buy == JsLt(priceChange, -5 * PctOne) /\ newsScore > 0
        sell == ~buy /\ JsGt(priceChange, 5 * PctOne) /\ newsScore < 0
        action == IF buy THEN "BUY" ELSE IF sell THEN "SELL" ELSE "HOLD"
        confidence == IF buy \/ sell THEN 60 * PctOne ELSE 40 * PctOne
        technicalScore == IF priceChange = NaN THEN NaN
                          ELSE JsDivide(priceChange * (ScoreOne \div PctOne), 10)
    IN  [action |-> action,
         confidence |-> confidence,
         price |-> currentPrice,
         targetPrice |-> IF action = "BUY" THEN currentPrice * 1030
                         ELSE currentPrice * 970,
         stopLoss |-> IF action = "BUY" THEN currentPrice * 980
                      ELSE currentPrice * 1020,
         reasoning |-> <<"Simplified analysis">>,
         technicalScore |-> technicalScore,
         newsScore |-> newsScore,
         combinedScore |-> IF technicalScore = NaN THEN NaN
                           ELSE JsDivide(technicalScore + newsScore, 2),
         indicators |->
            [rsi |-> IF priceChange = NaN THEN NaN ELSE 50 * PctOne - priceChange,
             macd |-> [value |-> 0, signal |-> 0, histogram |-> 0],
             sma20 |-> avgPrice, sma50 |-> avgPrice,
             ema12 |-> currentPrice, ema26 |-> avgPrice,
             bollingerBands |-> MockBands(currentPrice),
             trend |-> IF JsGt(priceChange, 0) THEN "bullish"
                       ELSE IF JsLt(priceChange, 0) THEN "bearish"
                       ELSE "neutral"],
         riskLevel |-> "MEDIUM",
         timeframe |-> "1h"]

\* the signal of the catch block
FallbackSignal(currentPrice) ==
    [action |-> "HOLD",
     confidence |-> 30 * PctOne,
     price |-> currentPrice,
     targetPrice |-> currentPrice * 1000,
     stopLoss |-> currentPrice * 950,
     reasoning |-> <<"Insufficient data for enhanced analysis">>,
     technicalScore |-> 0,
     newsScore |-> 0,
     combinedScore |-> 0,
     indicators |->
        [rsi |-> 50 * PctOne,
         macd |-> [value |-> 0, signal |-> 0, histogram |-> 0],
         sma20 |-> currentPrice, sma50 |-> currentPrice,
         ema12 |-> currentPrice, ema26 |-> currentPrice,
         bollingerBands |-> MockBands(currentPrice),
         trend |-> "neutral"],
     riskLevel |-> "MEDIUM",
     timeframe |-> "1h"]

\* the try block once the indicators are there
FullAnalysis(indicators, newsArticles, currentPrice) ==
    LET technicalScore == calculateTechnicalScore(indicators, currentPrice)
        newsScore == calculateNewsScore(newsArticles)
        ensemble == ensembleSignal(technicalScore, newsScore, 0)
        riskLevel == calculateRiskLevel(indicators, ensemble.combinedScore)
        targets == calculatePriceTargets(currentPrice, ensemble.action, indicators)
        signal == [action |-> ensemble.action,
                   confidence |-> ensemble.confidence,
                   price |-> currentPrice,
                   targetPrice |-> targets.targetPrice,
                   stopLoss |-> targets.stopLoss,
                   reasoning |-> EnhancedReasoning(indicators, newsScore,
                                                   ensemble.action),
                   technicalScore |-> technicalScore,
                   newsScore |-> newsScore,
                   combinedScore |-> ensemble.combinedScore,
                   indicators |-> indicators,
                   riskLevel |-> riskLevel,
                   timeframe |-> "1h"]
    IN  IF filterSignalByML(signal) THEN signal
        ELSE [signal EXCEPT
                !.action = "HOLD",
                !.confidence = 30 * PctOne,
                !.reasoning = Append(@,
                    " (Filtered by ML due to conflicting indicators)")]

\* marketData.length < 20
TooShortForIndicators(marketData) == Len(marketData) < SimplifiedBelow

generateEnhancedSignal(marketData, newsArticles, currentPrice, lib) ==
    IF TooShortForIndicators(marketData)
    THEN generateSimplifiedSignal(marketData, newsArticles, currentPrice)
    ELSE LET computed == calculateTechnicalIndicators(marketData, lib)
         IN  IF computed.threw THEN FallbackSignal(currentPrice)
             ELSE FullAnalysis(computed.indicators, newsArticles, currentPrice)

\* The generator's functions applied to every argument of a grid.

IndicatorGrid ==
    {[rsi |-> rsi, macd |-> [value |-> m.MACD, signal |-> m.signal,
                             histogram |-> m.histogram],
      sma20 |-> a.sma20, sma50 |-> a.sma50, ema12 |-> a.ema12,
      ema26 |-> a.ema26, bollingerBands |-> b, trend |-> t] :
        rsi \in {0, 2900, 3000, 3100, 5000, 7000, 7100, 10000},
        m \in MacdDraws, a \in AverageDraws, b \in BandDraws, t \in {"bullish", "bearish", "neutral"}}

DrawsFor(n) == IF n < MinCloses THEN {NeutralDraw} ELSE LibraryDraws

\* technical scores from -1 to 1 in steps of 0.05
TechnicalScores == {k * (ScoreOne \div 20) : k \in -20..20}

\* the action of the signal runBacktest and quickAccuracyTest act on, for a
\* technical score: they pass no news and no forecast to the generator
BacktestDirection(technicalScore) ==
    ensembleSignal(technicalScore, calculateNewsScore(<<>>), 0).action

\* the direction generateFusionSignal assigns when only the technical
\* source has a score
FusionDirection(technicalScore, sym) ==
    determineDirectionAndConfidence(
        calculateWeightedScore(
            [ZeroScores EXCEPT !.technicalScore = technicalScore], sym)).direction

GeneratorStart ==
    /\ fnOut = NoOut
    /\ \/ \E n \in 0..MaxCandles :
             fnArg \in [fn : {"generateEnhancedSignal"},
                        marketData : {Series(n)}, newsArticles : NewsLists,
                        currentPrice : CurrentPrices, lib : DrawsFor(n)]
       \/ \E n \in 0..MaxCandles :
             fnArg \in [fn : {"calculateTechnicalIndicators"},
                        marketData : {Series(n)}, lib : DrawsFor(n)]
       \/ fnArg \in [fn : {"calculateTechnicalScore"},
                     indicators : IndicatorGrid, currentPrice : CurrentPrices]
       \/ fnArg \in [fn : {"direction"}, technicalScore : TechnicalScores,
                     symbol : Symbols]

ApplyIndicators ==
    /\ fnArg.fn = "calculateTechnicalIndicators"
    /\ ~fnOut.applied
    /\ fnOut' = [applied |-> TRUE,
                 value |-> calculateTechnicalIndicators(fnArg.marketData,
                                                        fnArg.lib)]
    /\ UNCHANGED <<fnArg, fusionVars, btVars, appVars,
                   dayVars, clientVars>>

ApplyTechnicalScore ==
    /\ fnArg.fn = "calculateTechnicalScore"
    /\ ~fnOut.applied
    /\ fnOut' = [applied |-> TRUE,
                 value |-> calculateTechnicalScore(fnArg.indicators,
                                                   fnArg.currentPrice)]
    /\ UNCHANGED <<fnArg, fusionVars, btVars, appVars,
                   dayVars, clientVars>>

ApplyEnhancedSignal ==
    /\ fnArg.fn = "generateEnhancedSignal"
    /\ ~fnOut.applied
    /\ fnOut' = [applied |-> TRUE,
                 value |-> generateEnhancedSignal(fnArg.marketData,
                               fnArg.newsArticles, fnArg.currentPrice,
                               fnArg.lib)]
    /\ UNCHANGED <<fnArg, fusionVars, btVars, appVars,
                   dayVars, clientVars>>

\* both decision rules applied to one technical score
ApplyDirections ==
    /\ fnArg.fn = "direction"
    /\ ~fnOut.applied
    /\ fnOut' = [applied |-> TRUE,
                 value |-> [backtest |-> BacktestDirection(fnArg.technicalScore),
                            fusion |-> FusionDirection(fnArg.technicalScore,
                                                       fnArg.symbol)]]
    /\ UNCHANGED <<fnArg, fusionVars, btVars, appVars,
                   dayVars, clientVars>>

----------------------------------------------------------------------------
(* BacktestingService.quickAccuracyTest, run on one price history after    *)
(* another.  The history is what binanceService.getKlines or               *)
(* generateHistoricalData hands over; only its closes are read.            *)

QuickWindow == 20
MaxQuickCandles == 72

\* the histories: flat, rising and falling closes of every length up to
\* MaxQuickCandles, in a fixed order
QuickHistory(n, shape) ==
    [k \in 1..n |->
        MarketDataPoint(IF shape = 0 THEN 1000
                        ELSE IF shape = 1 THEN 1000 + 20 * k
                        ELSE 2000 - 20 * k)]

QuickHistoryCount == 3 * (MaxQuickCandles + 1)

QuickHistoryAt(h) == QuickHistory((h - 1) \div 3, (h - 1) % 3)

\* historicalData.slice(Math.max(0, i - 20), i)
QuickWindowOf(data, index) ==
    SubSeq(data, (IF index - QuickWindow > 0 THEN index - QuickWindow ELSE 0) + 1,
           index)

\* signal.action !== 'HOLD' and wasCorrect: the counters after the turn
\* of the loop at index, as <<wins, totalSignals>>
QuickCounted(data, index, wins, totalSignals, signal) ==
    LET currentPrice == At(data, index).close
        futureIndex == IF index + 3 < Len(data) - 1 THEN index + 3
                       ELSE Len(data) - 1
        futurePrice == At(data, futureIndex).close
        wasCorrect ==
            \/ signal.action = "BUY" /\ futurePrice > currentPrice
            \/ signal.action = "SELL" /\ futurePrice < currentPrice
    IN  IF signal.action = "HOLD" THEN <<wins, totalSignals>>
        ELSE <<IF wasCorrect THEN wins + 1 ELSE wins, totalSignals + 1>>

\* the loop for (i = 20; i < historicalData.length - 5; i += 5), from index
\* on, with the counters so far as <<wins, totalSignals>>
RECURSIVE QuickLoop(_, _, _)
QuickLoop(data, index, counters) ==
    IF ~(index < Len(data) - 5) THEN counters
    ELSE QuickLoop(data, index + 5,
             QuickCounted(data, index, counters[1], counters[2],
                 generateEnhancedSignal(QuickWindowOf(data, index), <<>>,
                                        At(data, index).close, NeutralDraw)))

\* accuracy and confidence for the counters <<wins, totalSignals>>
QuickResult(counters) ==
    [accuracy |-> IF counters[2] > 0
                  THEN (counters[1] * 100 * PctOne) \div counters[2]
                  ELSE 65 * PctOne,
     confidence |-> MathMin(counters[2] * 15 * PctOne, 95 * PctOne),
     totalSignals |-> counters[2]]

quickAccuracyTest(data) == QuickResult(QuickLoop(data, QuickWindow, <<0, 0>>))

\* the result when no signal was scored
DefaultAccuracy ==
    [accuracy |-> 65 * PctOne, confidence |-> 0, totalSignals |-> 0]

QuickStart ==
    /\ fnArg = [fn |-> "quickAccuracyTest", tested |-> 0]
    /\ fnOut = [applied |-> FALSE, value |-> DefaultAccuracy, scored |-> 0]

\* the histories scored so far, the one with the result tested included
QuickScored(scored, tested) ==
    [applied |-> TRUE, value |-> tested,
     scored |-> IF tested.totalSignals > 0 /\ tested # DefaultAccuracy
                THEN scored + 1 ELSE scored]

\* quickAccuracyTest on the next history; scored counts the histories
\* whose result is not the default one
QuickAccuracyTest ==
    /\ fnArg.fn = "quickAccuracyTest"
    /\ fnArg.tested < QuickHistoryCount
    /\ fnArg' = [fnArg EXCEPT !.tested = fnArg.tested + 1]
    /\ fnOut' = QuickScored(fnOut.scored,
                            quickAccuracyTest(QuickHistoryAt(fnArg.tested + 1)))
    /\ UNCHANGED <<fusionVars, btVars, appVars, dayVars, clientVars>>

----------------------------------------------------------------------------
(* The signal of one step of runBacktest as the generator computes it: a   *)
(* window of Window candles, no news, no forecast.  The steps are taken    *)
(* for every library output and current price, one after another.          *)

RECURSIVE Ordered(_)
Ordered(S) ==
    IF S = {} THEN <<>>
    ELSE LET x == CHOOSE y \in S : TRUE
         IN  <<x>> \o Ordered(S \ {x})

\* <<what the indicator library returns for the window, historicalData[i].close>>
BacktestWindows ==
    LET rsis == Ordered({d.rsi : d \in LibraryDraws})
        macds == Ordered(MacdDraws)
        averages == Ordered(AverageDraws)
        bands == Ordered(BandDraws)
        prices == Ordered(CurrentPrices)
        n1 == Len(rsis)
        n2 == n1 * Len(macds)
        n3 == n2 * Len(averages)
        n4 == n3 * Len(bands)
        Pick(seq, k, step) == seq[(((k - 1) \div step) % Len(seq)) + 1]
    IN  [k \in 1..(n4 * Len(prices)) |->
            <<[rsi |-> Pick(rsis, k, 1),
               macd |-> Pick(macds, k, n1),
               averages |-> Pick(averages, k, n2),
               bands |-> Pick(bands, k, n3)],
              Pick(prices, k, n4)>>]

\* generateEnhancedSignal(symbol, windowData, [], currentPrice) of the loop
BacktestSignal(lib, currentPrice) ==
    generateEnhancedSignal(Series(Window), <<>>, currentPrice, lib)

WindowStart ==
    /\ fnArg = [fn |-> "backtestSignal", tested |-> 0]
    /\ fnOut = [applied |-> FALSE, value |-> "HOLD", scored |-> 0]

\* the signal of the next window; scored counts the windows answered with
\* BUY or SELL, the only signals that open a position
BacktestWindowSignal ==
    /\ fnArg.fn = "backtestSignal"
    /\ fnArg.tested < Len(BacktestWindows)
    /\ LET input == BacktestWindows[fnArg.tested + 1]
           signal == BacktestSignal(input[1], input[2])
       IN  /\ fnArg' = [fnArg EXCEPT !.tested = fnArg.tested + 1]
           /\ fnOut' = [applied |-> TRUE, value |-> signal.action,
                        scored |-> IF signal.action \in {"BUY", "SELL"}
                                   THEN fnOut.scored + 1 ELSE fnOut.scored]
    /\ UNCHANGED <<fusionVars, btVars, appVars,
                   dayVars, clientVars>>

----------------------------------------------------------------------------
(* The server's scheduled work (App.tsx): LLM budget and auto-trading.     *)
(* A confidence is a whole percentage, as parseInt(signal.confidence)      *)
(* reads it; the confidence an analysis carries is in hundredths.  An      *)
(* async function is one action per stretch of code between two awaits.    *)

dailyOpenAIBudget == 20

MaxDay == 1         \* midnight passes at most MaxDay times
MaxLlmCalls == 22   \* requests sent to the LLM on one day
MaxArticles == 2    \* articles of one fetchAndAnalyzeNews batch

\* process.env.OPENAI_API_KEY: unset, the placeholder, a working key
ApiKeys == {"", "demo-key", "sk-live"}

\* generateTradingSignal runs once from the start-up timer and once per
\* POST /api/generate-signal
Invocations == {"startup", "request"}

\* const autoTradingConfig = {...}
AutoTradingDefaults ==
    [enabled |-> TRUE, confidenceThreshold |-> 85, maxDailyTrades |-> 10,
     currentDailyTrades |-> 0, lastResetDate |-> 0]

IdleTask == [pc |-> "idle", confidence |-> 0]

NoNews == [pc |-> "idle", articles |-> <<>>, at |-> 0, deepAnalysisCount |-> 0]

AppIdle ==
    /\ apiKey = ""
    /\ today = 0
    /\ budgetUsedToday = 0
    /\ lastResetDate = 0
    /\ llmCalls = 0
    /\ autoTradingConfig = AutoTradingDefaults
    /\ signalTask = [t \in Invocations |-> [pc |-> "done", confidence |-> 0]]
    /\ newsTask = [NoNews EXCEPT !.pc = "done"]
    /\ positions = {}
    /\ createdToday = 0

\* resetDailyBudget: the value of budgetUsedToday after the call
resetDailyBudget == IF lastResetDate # today THEN 0 ELSE budgetUsedToday

\* the pc of an invocation that returned: the request handler can be
\* called again, the start-up timer fires once
AfterReturn(t) == IF t = "request" THEN "idle" ELSE "done"

\* what the chat completion resolves to: a rejection or unparsable text,
\* or a JSON object with or without a confidence
LlmAnswers ==
    {[ok |-> FALSE, confidence |-> Undefined]}
        \cup [ok : {TRUE}, confidence : {Undefined, 96}]

\* ((analysis.confidence || 0.8) * 100).toFixed(0), read by parseInt
SignalConfidence(confidence) ==
    IF confidence \in {Undefined, NaN, 0} THEN 80 ELSE confidence

\* sentimentBias, in hundredths
SentimentBiases == {-15, 0, 15}

\* Math.min(0.95, Math.max(0.65, 0.7 + Math.abs(sentimentBias) * 2))
FallbackConfidence(sentimentBias) ==
    LET raw == 70 + (IF sentimentBias < 0 THEN -sentimentBias
                     ELSE sentimentBias) * 2
        low == IF raw < 65 THEN 65 ELSE raw
    IN  IF low > 95 THEN 95 ELSE low

\* generateTradingSignal up to its first await: the chat completion when
\* a key is set and the budget is not used up, else storage.getNewsArticles
GenerateTradingSignal(t) ==
    /\ signalTask[t].pc = "idle"
    /\ lastResetDate' = today
    /\ IF apiKey # "" /\ resetDailyBudget < dailyOpenAIBudget
       THEN /\ llmCalls < MaxLlmCalls
            /\ llmCalls' = llmCalls + 1
            /\ signalTask' = [signalTask EXCEPT ![t].pc = "llm"]
       ELSE /\ llmCalls' = llmCalls
            /\ signalTask' = [signalTask EXCEPT ![t].pc = "news"]
    /\ budgetUsedToday' = resetDailyBudget
    /\ UNCHANGED <<apiKey, today, autoTradingConfig, newsTask, positions,
                   scoreVars, fusionVars, btVars,
                   dayVars, clientVars>>

\* the chat completion settles: the answer is parsed and counted, and
\* storage.createTradingSignal is awaited; a rejection falls back
LlmSettled(t) ==
    /\ signalTask[t].pc = "llm"
    /\ \E answer \in LlmAnswers :
          /\ answer.ok => apiKey = "sk-live"
          /\ IF answer.ok
             THEN /\ budgetUsedToday' = budgetUsedToday + 1
                  /\ signalTask' = [signalTask EXCEPT ![t] =
                         [pc |-> "store",
                          confidence |-> SignalConfidence(answer.confidence)]]
             ELSE /\ budgetUsedToday' = budgetUsedToday
                  /\ signalTask' = [signalTask EXCEPT ![t].pc = "news"]
    /\ UNCHANGED <<apiKey, today, lastResetDate, llmCalls, autoTradingConfig,
                   newsTask, positions, scoreVars, fusionVars, btVars,
                   dayVars, clientVars>>

\* storage.getNewsArticles resolves: the fallback analysis
FallbackAnalysis(t) ==
    /\ signalTask[t].pc = "news"
    /\ \E sentimentBias \in SentimentBiases :
          signalTask' = [signalTask EXCEPT ![t] =
              [pc |-> "store",
               confidence |-> SignalConfidence(
                                  FallbackConfidence(sentimentBias))]]
    /\ UNCHANGED <<apiKey, today, budgetUsedToday, lastResetDate, llmCalls,
                   autoTradingConfig, newsTask, positions, scoreVars,
                   fusionVars, btVars,
                   dayVars, clientVars>>

\* executeAutoTrade up to its first await: autoTradingConfig after the
\* day's reset
TradesReset ==
    IF autoTradingConfig.lastResetDate # today
    THEN [autoTradingConfig EXCEPT !.currentDailyTrades = 0,
                                   !.lastResetDate = today]
    ELSE autoTradingConfig

\* signalConfidence >= autoTradingConfig.confidenceThreshold
AutoExecutes(signalConfidence) ==
    /\ autoTradingConfig.enabled
    /\ signalConfidence >= autoTradingConfig.confidenceThreshold

\* storage.createTradingSignal resolves: the signal is broadcast and, when
\* confident enough, executeAutoTrade runs to its daily limit check
SignalStored(t) ==
    /\ signalTask[t].pc = "store"
    /\ IF AutoExecutes(signalTask[t].confidence)
       THEN /\ autoTradingConfig' = TradesReset
            /\ IF TradesReset.currentDailyTrades >= TradesReset.maxDailyTrades
               THEN signalTask' = [signalTask EXCEPT ![t] =
                        [pc |-> AfterReturn(t), confidence |-> 0]]
               ELSE signalTask' = [signalTask EXCEPT ![t].pc = "portfolio"]
       ELSE /\ autoTradingConfig' = autoTradingConfig
            /\ signalTask' = [signalTask EXCEPT ![t] =
                   [pc |-> AfterReturn(t), confidence |-> 0]]
    /\ UNCHANGED <<apiKey, today, budgetUsedToday, lastResetDate, llmCalls,
                   newsTask, positions, scoreVars, fusionVars, btVars,
                   dayVars, clientVars>>

\* storage.getPortfolio resolves: storage.createPosition is called
CreatePosition(t) ==
    /\ signalTask[t].pc = "portfolio"
    /\ positions' = positions \cup {[confidence |-> signalTask[t].confidence]}
    /\ createdToday' = createdToday + 1
    /\ signalTask' = [signalTask EXCEPT ![t].pc = "position"]
    /\ UNCHANGED <<apiKey, today, budgetUsedToday, lastResetDate, llmCalls,
                   autoTradingConfig, newsTask, scoreVars, fusionVars,
                   btVars, clientVars>>

\* storage.createPosition resolves: storage.createTrade is called
CreateTrade(t) ==
    /\ signalTask[t].pc = "position"
    /\ signalTask' = [signalTask EXCEPT ![t].pc = "trade"]
    /\ UNCHANGED <<apiKey, today, budgetUsedToday, lastResetDate, llmCalls,
                   autoTradingConfig, newsTask, positions, scoreVars,
                   fusionVars, btVars,
                   dayVars, clientVars>>

\* storage.createTrade resolves: storage.updateTradingSignal is called
UpdateTradingSignal(t) ==
    /\ signalTask[t].pc = "trade"
    /\ signalTask' = [signalTask EXCEPT ![t].pc = "update"]
    /\ UNCHANGED <<apiKey, today, budgetUsedToday, lastResetDate, llmCalls,
                   autoTradingConfig, newsTask, positions, scoreVars,
                   fusionVars, btVars,
                   dayVars, clientVars>>

\* storage.updateTradingSignal resolves: the day's counter is incremented
CountTrade(t) ==
    /\ signalTask[t].pc = "update"
    /\ autoTradingConfig' =
           [autoTradingConfig EXCEPT
                !.currentDailyTrades = autoTradingConfig.currentDailyTrades + 1]
    /\ signalTask' = [signalTask EXCEPT ![t] =
           [pc |-> AfterReturn(t), confidence |-> 0]]
    /\ UNCHANGED <<apiKey, today, budgetUsedToday, lastResetDate, llmCalls,
                   newsTask, positions, scoreVars, fusionVars, btVars,
                   dayVars, clientVars>>

\* the bodies POST /api/auto-trading/config is sent
ConfigBodies ==
    [enabled : BOOLEAN, confidenceThreshold : {40, 85, 96},
     maxDailyTrades : {0, 2, 10}]

\* POST /api/auto-trading/config
UpdateConfig ==
    /\ \E body \in ConfigBodies :
          autoTradingConfig' =
              [autoTradingConfig EXCEPT
                   !.enabled = body.enabled,
                   !.confidenceThreshold =
                       IF body.confidenceThreshold >= 50
                          /\ body.confidenceThreshold <= 100
                       THEN body.confidenceThreshold ELSE @,
                   !.maxDailyTrades =
                       IF body.maxDailyTrades >= 1
                          /\ body.maxDailyTrades <= 50
                       THEN body.maxDailyTrades ELSE @]
    /\ autoTradingConfig' # autoTradingConfig
    /\ createdToday' =
           IF autoTradingConfig'.maxDailyTrades = autoTradingConfig.maxDailyTrades
           THEN createdToday ELSE 0
    /\ UNCHANGED <<apiKey, today, budgetUsedToday, lastResetDate, llmCalls,
                   signalTask, newsTask, positions, scoreVars, fusionVars,
                   btVars, clientVars>>

\* the system clock passes midnight
Midnight ==
    /\ today < MaxDay
    /\ today' = today + 1
    /\ llmCalls' = 0
    /\ createdToday' = 0
    /\ UNCHANGED <<apiKey, budgetUsedToday, lastResetDate, autoTradingConfig,
                   signalTask, newsTask, positions, scoreVars, fusionVars,
                   btVars, clientVars>>

\* the batches of a fetch: cheapAnalysis(article).shouldDeepAnalyze of
\* each article
ArticleLists ==
    UNION {[1..n -> BOOLEAN] : n \in 1..MaxArticles}

\* deepAnalysis answers without a request when no working key is set
NoDeepKey == apiKey \in {"", "demo-key"}

\* one turn of the loop over the articles, up to its first await:
\* deepAnalysis when the article is relevant and the budget allows it,
\* else storage.createNewsArticle
NewsIteration(used, articles, at, deepAnalysisCount) ==
    IF /\ articles[at]
       /\ used < dailyOpenAIBudget
       /\ deepAnalysisCount < 3
       /\ ~NoDeepKey
    THEN /\ llmCalls < MaxLlmCalls
         /\ llmCalls' = llmCalls + 1
         /\ newsTask' = [pc |-> "deep", articles |-> articles, at |-> at,
                         deepAnalysisCount |-> deepAnalysisCount]
    ELSE /\ llmCalls' = llmCalls
         /\ newsTask' = [pc |-> "storeNews", articles |-> articles,
                         at |-> at, deepAnalysisCount |-> deepAnalysisCount]

\* fetchAndAnalyzeNews up to its first await, rssParser.parseURL
FetchAndAnalyzeNews ==
    /\ newsTask.pc = "idle"
    /\ newsTask' = [newsTask EXCEPT !.pc = "rss"]
    /\ UNCHANGED <<apiKey, today, budgetUsedToday, lastResetDate, llmCalls,
                   autoTradingConfig, signalTask, positions, scoreVars,
                   fusionVars, btVars,
                   dayVars, clientVars>>

\* the feeds are read: resetDailyBudget, cheapAnalysis, first article
FeedsRead ==
    /\ newsTask.pc = "rss"
    /\ lastResetDate' = today
    /\ budgetUsedToday' = resetDailyBudget
    /\ \E articles \in ArticleLists :
          NewsIteration(resetDailyBudget, articles, 1, 0)
    /\ UNCHANGED <<apiKey, today, autoTradingConfig, signalTask, positions,
                   scoreVars, fusionVars, btVars,
                   dayVars, clientVars>>

\* the chat completion of deepAnalysis settles
DeepSettled ==
    /\ newsTask.pc = "deep"
    /\ \E ok \in BOOLEAN :
          /\ ok => apiKey = "sk-live"
          /\ IF ok
             THEN /\ budgetUsedToday' = budgetUsedToday + 1
                  /\ newsTask' = [newsTask EXCEPT
                         !.pc = "storeNews",
                         !.deepAnalysisCount = newsTask.deepAnalysisCount + 1]
             ELSE /\ budgetUsedToday' = budgetUsedToday
                  /\ newsTask' = [newsTask EXCEPT !.pc = "storeNews"]
    /\ UNCHANGED <<apiKey, today, lastResetDate, llmCalls, autoTradingConfig,
                   signalTask, positions, scoreVars, fusionVars, btVars,
                   dayVars, clientVars>>

\* storage.createNewsArticle resolves: the next article, or the end
NewsStored ==
    /\ newsTask.pc = "storeNews"
    /\ IF newsTask.at < Len(newsTask.articles)
       THEN NewsIteration(budgetUsedToday, newsTask.articles,
                          newsTask.at + 1, newsTask.deepAnalysisCount)
       ELSE /\ llmCalls' = llmCalls
            /\ newsTask' = [NoNews EXCEPT !.pc = "done"]
    /\ UNCHANGED <<apiKey, today, budgetUsedToday, lastResetDate,
                   autoTradingConfig, signalTask, positions, scoreVars,
                   fusionVars, btVars,
                   dayVars, clientVars>>

\* the server after registerRoutes, with a key in the environment and
\* auto-trading switched off
BudgetStart ==
    /\ apiKey \in ApiKeys \ {""}
    /\ today = 0
    /\ budgetUsedToday = 0
    /\ lastResetDate = 0
    /\ llmCalls = 0
    /\ autoTradingConfig = [AutoTradingDefaults EXCEPT !.enabled = FALSE]
    /\ signalTask = [t \in Invocations |-> IdleTask]
    /\ newsTask = NoNews
    /\ positions = {}
    /\ createdToday = 0

\* the server after registerRoutes, without a key in the environment
AutoTradeStart ==
    /\ apiKey = ""
    /\ today = 0
    /\ budgetUsedToday = 0
    /\ lastResetDate = 0
    /\ llmCalls = 0
    /\ autoTradingConfig = AutoTradingDefaults
    /\ signalTask = [t \in Invocations |-> IdleTask]
    /\ newsTask = [NoNews EXCEPT !.pc = "done"]
    /\ positions = {}
    /\ createdToday = 0

----------------------------------------------------------------------------
(* POST /api/signals/execute/:id (App.tsx) on MemStorage.tradingSignals.   *)
(* A signal id is the signal's place in tradingSignals.                    *)

\* the requests that can be in flight together
Requests == {"first", "second"}

ExecuteIdle ==
    /\ tradingSignals = <<>>
    /\ executeTask = [r \in Requests |-> [pc |-> "done", id |-> 0]]
    /\ executions = <<>>

MaxExecutions == 2  \* execution requests accepted for one signal

\* the ids a request can carry: the stored signals' and an unknown one
RequestIds == 1..(Len(tradingSignals) + 1)

NotExecuted == [requested |-> 0, positions |-> 0, trades |-> 0]

\* the store holds a signal generateTradingSignal created and left active,
\* and one that executeAutoTrade executed: its position and its trade
\* exist and updateTradingSignal made it inactive
ExecuteStart ==
    /\ tradingSignals = <<[isActive |-> TRUE], [isActive |-> FALSE]>>
    /\ executeTask = [r \in Requests |-> [pc |-> "idle", id |-> 0]]
    /\ executions = <<NotExecuted,
                      [requested |-> 0, positions |-> 1, trades |-> 1]>>

\* MemStorage.updateTradingSignal(id, updates) with updates = {isActive:
\* false}: the store after the call
updateTradingSignal(id) ==
    IF id \in DOMAIN tradingSignals
    THEN [tradingSignals EXCEPT ![id] = [@ EXCEPT !.isActive = FALSE]]
    ELSE tradingSignals

\* the handler up to its first await: storage.updateTradingSignal
ExecuteSignal(r) ==
    /\ executeTask[r].pc = "idle"
    /\ \E id \in RequestIds :
          /\ id \in DOMAIN executions =>
                 executions[id].requested < MaxExecutions
          /\ tradingSignals' = updateTradingSignal(id)
          /\ executeTask' = [executeTask EXCEPT ![r] =
                                 [pc |-> "updated", id |-> id]]
          /\ executions' =
                 IF id \in DOMAIN executions
                 THEN [executions EXCEPT ![id].requested = @ + 1]
                 ELSE executions
    /\ UNCHANGED <<scoreVars, fusionVars, btVars, appVars, dayVars, wsVars>>

\* updateTradingSignal resolves: 404 for an unknown id, else
\* storage.getPortfolio is called
SignalUpdated(r) ==
    /\ executeTask[r].pc = "updated"
    /\ executeTask' =
           IF executeTask[r].id \in DOMAIN tradingSignals
           THEN [executeTask EXCEPT ![r].pc = "portfolio"]
           ELSE [executeTask EXCEPT ![r] = [pc |-> "idle", id |-> 0]]
    /\ UNCHANGED <<tradingSignals, executions, scoreVars, fusionVars, btVars,
                   appVars, dayVars, wsVars>>

\* getPortfolio resolves: storage.createPosition is called
ExecuteCreatePosition(r) ==
    /\ executeTask[r].pc = "portfolio"
    /\ executions' = [executions EXCEPT ![executeTask[r].id].positions = @ + 1]
    /\ executeTask' = [executeTask EXCEPT ![r].pc = "position"]
    /\ UNCHANGED <<tradingSignals, scoreVars, fusionVars, btVars, appVars,
                   dayVars, wsVars>>

\* createPosition resolves: storage.createTrade is called
ExecuteCreateTrade(r) ==
    /\ executeTask[r].pc = "position"
    /\ executions' = [executions EXCEPT ![executeTask[r].id].trades = @ + 1]
    /\ executeTask' = [executeTask EXCEPT ![r].pc = "trade"]
    /\ UNCHANGED <<tradingSignals, scoreVars, fusionVars, btVars, appVars,
                   dayVars, wsVars>>

\* createTrade resolves: the execution is broadcast and answered
ExecuteAnswered(r) ==
    /\ executeTask[r].pc = "trade"
    /\ executeTask' = [executeTask EXCEPT ![r] = [pc |-> "idle", id |-> 0]]
    /\ UNCHANGED <<tradingSignals, executions, scoreVars, fusionVars, btVars,
                   appVars, dayVars, wsVars>>

----------------------------------------------------------------------------
(* connectWebSocket (services/websocket.ts) *)

SocketIdle ==
    /\ ws = "null"
    /\ reconnectAttempts = 0
    /\ reconnectTimer = FALSE
    /\ cleanedUp = FALSE
    /\ connections = 0

ClientIdle == ExecuteIdle /\ SocketIdle

maxReconnectAttempts == 5

MaxConnections == 8     \* sockets one connectWebSocket instance creates

\* connectWebSocket has returned: connect() ran once
SocketStart ==
    /\ ws = "CONNECTING"
    /\ reconnectAttempts = 0
    /\ reconnectTimer = FALSE
    /\ cleanedUp = FALSE
    /\ connections = 1

\* ws.onopen
OnOpen ==
    /\ ws = "CONNECTING"
    /\ ws' = "OPEN"
    /\ reconnectAttempts' = 0
    /\ UNCHANGED <<reconnectTimer, cleanedUp, connections, scoreVars,
                   fusionVars, btVars, appVars, dayVars, execVars>>

\* ws.onclose: the connection failed, was dropped, or the closing
\* handshake that ws.close() started is over
OnClose ==
    /\ ws \in {"CONNECTING", "OPEN", "CLOSING"}
    /\ ws' = "CLOSED"
    /\ IF reconnectAttempts < maxReconnectAttempts
       THEN /\ reconnectAttempts' = reconnectAttempts + 1
            /\ reconnectTimer' = TRUE
       ELSE UNCHANGED <<reconnectAttempts, reconnectTimer>>
    /\ UNCHANGED <<cleanedUp, connections, scoreVars, fusionVars, btVars,
                   appVars, dayVars, execVars>>

\* the setTimeout callback of onclose: connect()
Reconnect ==
    /\ reconnectTimer
    /\ connections < MaxConnections
    /\ reconnectTimer' = FALSE
    /\ ws' = "CONNECTING"
    /\ connections' = connections + 1
    /\ UNCHANGED <<reconnectAttempts, cleanedUp, scoreVars, fusionVars,
                   btVars, appVars, dayVars, execVars>>

\* the cleanup function: if (ws) ws.close(), which starts the closing
\* handshake of a socket that is connecting or open
Cleanup ==
    /\ ~cleanedUp
    /\ cleanedUp' = TRUE
    /\ ws' = IF ws \in {"CONNECTING", "OPEN"} THEN "CLOSING" ELSE ws
    /\ UNCHANGED <<reconnectAttempts, reconnectTimer, connections, scoreVars,
                   fusionVars, btVars, appVars, dayVars, execVars>>

----------------------------------------------------------------------------
(* Specifications *)

\* generateFusionSignal, called up to MaxCalls times
Init == FusionIdle /\ ScoreIdle /\ BacktestIdle /\ AppIdle /\ ClientIdle

Next ==
    \/ CallFusion
    \/ RepeatFusion
    \/ SettleTechnical
    \/ SettleSocial
    \/ SettleTelegram
    \/ SettleIndianMarket
    \/ SettleNews
    \/ ReturnFusionSignal

Spec == Init /\ [][Next]_vars

\* the scoring functions on every argument of the grid
ScoreInit ==
    /\ FusionIdle
    /\ BacktestIdle
    /\ AppIdle /\ ClientIdle
    /\ fnOut = NoOut
    /\ \/ fnArg \in [fn : {"calculateWeightedScore"}, symbol : Symbols,
                     scores : ScoreTuples, finalScore : {0}]
       \/ fnArg \in [fn : {"determineDirectionAndConfidence"},
                     symbol : {<<"AAPL">>}, scores : {ZeroScores},
                     finalScore : (-ScoreOne)..ScoreOne]
       \/ fnArg \in [fn : {"generateTradingParameters"},
                     symbol : ParameterSymbols, scores : {ZeroScores},
                     finalScore : (-ScoreOne)..ScoreOne]

ScoreNext == ApplyWeighted \/ ApplyDirection \/ ApplyTradingParameters

ScoreSpec == ScoreInit /\ [][ScoreNext]_vars

\* runBacktest on every history and initial balance
BacktestInit == FusionIdle /\ ScoreIdle /\ AppIdle /\ ClientIdle /\ BacktestStart

BacktestNext == BacktestStep \/ BacktestFinish

BacktestSpec == BacktestInit /\ [][BacktestNext]_vars

\* runBacktest on every strictly rising history, every signal BUY
BullishInit == FusionIdle /\ ScoreIdle /\ AppIdle /\ ClientIdle /\ BullishStart

BullishNext == BullishStep \/ BacktestFinish

BullishSpec == BullishInit /\ [][BullishNext]_vars

\* the signal generator's functions on every argument of the grid
GeneratorInit == FusionIdle /\ BacktestIdle /\ AppIdle /\ ClientIdle /\ GeneratorStart

GeneratorNext ==
    \/ ApplyIndicators
    \/ ApplyTechnicalScore
    \/ ApplyEnhancedSignal
    \/ ApplyDirections

GeneratorSpec == GeneratorInit /\ [][GeneratorNext]_vars

\* the server with a key: generateTradingSignal from the timer and from
\* the endpoint, fetchAndAnalyzeNews from the timer, across midnight
BudgetInit == FusionIdle /\ ScoreIdle /\ BacktestIdle /\ BudgetStart
              /\ ClientIdle

BudgetNext ==
    \/ \E t \in Invocations : GenerateTradingSignal(t)
    \/ \E t \in Invocations : LlmSettled(t)
    \/ \E t \in Invocations : FallbackAnalysis(t)
    \/ \E t \in Invocations : SignalStored(t)
    \/ FetchAndAnalyzeNews
    \/ FeedsRead
    \/ DeepSettled
    \/ NewsStored
    \/ Midnight

BudgetSpec == BudgetInit /\ [][BudgetNext]_vars

\* the server without a key: generateTradingSignal, executeAutoTrade and
\* the configuration endpoint, across midnight
AutoTradeInit == FusionIdle /\ ScoreIdle /\ BacktestIdle /\ AutoTradeStart
                 /\ ClientIdle

AutoTradeNext ==
    \/ \E t \in Invocations : GenerateTradingSignal(t)
    \/ \E t \in Invocations : FallbackAnalysis(t)
    \/ \E t \in Invocations : SignalStored(t)
    \/ \E t \in Invocations : CreatePosition(t)
    \/ \E t \in Invocations : CreateTrade(t)
    \/ \E t \in Invocations : UpdateTradingSignal(t)
    \/ \E t \in Invocations : CountTrade(t)
    \/ UpdateConfig
    \/ Midnight

AutoTradeSpec == AutoTradeInit /\ [][AutoTradeNext]_vars

\* runBacktest on every history of closes on and around the thresholds
ThresholdInit == FusionIdle /\ ScoreIdle /\ AppIdle /\ ClientIdle /\ ThresholdStart

ThresholdNext == BacktestStep \/ BacktestFinish

ThresholdSpec == ThresholdInit /\ [][ThresholdNext]_vars

\* quickAccuracyTest on every history of the list, one after another
QuickInit == FusionIdle /\ BacktestIdle /\ AppIdle /\ ClientIdle /\ QuickStart

QuickNext == QuickAccuracyTest

QuickSpec == QuickInit /\ [][QuickNext]_vars

\* the generator's signal for every window runBacktest can hand over
WindowInit == FusionIdle /\ BacktestIdle /\ AppIdle /\ ClientIdle /\ WindowStart

WindowNext == BacktestWindowSignal

WindowSpec == WindowInit /\ [][WindowNext]_vars

\* POST /api/signals/execute/:id, two requests at a time
ExecuteInit ==
    FusionIdle /\ ScoreIdle /\ BacktestIdle /\ AppIdle /\ SocketIdle
        /\ ExecuteStart

ExecuteNext ==
    \/ \E r \in Requests : ExecuteSignal(r)
    \/ \E r \in Requests : SignalUpdated(r)
    \/ \E r \in Requests : ExecuteCreatePosition(r)
    \/ \E r \in Requests : ExecuteCreateTrade(r)
    \/ \E r \in Requests : ExecuteAnswered(r)

ExecuteSpec == ExecuteInit /\ [][ExecuteNext]_vars

\* one connectWebSocket instance of the dashboard
SocketInit ==
    FusionIdle /\ ScoreIdle /\ BacktestIdle /\ AppIdle /\ ExecuteIdle
        /\ SocketStart

SocketNext == OnOpen \/ OnClose \/ Reconnect \/ Cleanup

SocketSpec == SocketInit /\ [][SocketNext]_vars

----------------------------------------------------------------------------
(* Properties of the scoring functions (ScoreSpec) *)

\* C1: for every finalScore in [-1,1] the direction is BUY iff
\* finalScore > 0.15, SELL iff finalScore < -0.15, and HOLD otherwise
\* (also at exactly +0.15 and -0.15).
C1_DirectionBand ==
    fnOut.applied =>
        /\ (fnOut.direction = "BUY") <=> (fnOut.finalScore > 1500)
        /\ (fnOut.direction = "SELL") <=> (fnOut.finalScore < -1500)
        /\ (fnOut.direction = "HOLD") <=>
               (-1500 <= fnOut.finalScore /\ fnOut.finalScore <= 1500)

C1_Witness ==
    /\ fnOut.applied
    /\ fnArg.fn = "determineDirectionAndConfidence"
    /\ fnArg.finalScore = 1500
    /\ fnOut.direction = "HOLD"

\* The weighted sum of the five scores under an explicit weight table
\* (technical, social, messaging, regional, news, in hundredths).
TableSum(scores, t) ==
    (scores.technicalScore * t[1] + scores.socialScore * t[2]
     + scores.telegramScore * t[3] + scores.indianMarketScore * t[4]
     + scores.newsScore * t[5]) \div 100

Clamped(x) == IF x > ScoreOne THEN ScoreOne ELSE IF x < -ScoreOne THEN -ScoreOne ELSE x

CryptoExample ==
    [technicalScore |-> 6000, socialScore |-> 4000, telegramScore |-> 5000,
     indianMarketScore |-> 0, newsScore |-> 1000]

TableTotal(w) == w.technical + w.social + w.telegram + w.indianMarket + w.news

InDoubleUnit(d) == ~DoubleLess(DoubleOne, d) /\ ~DoubleLess(d, DoubleNeg(DoubleOne))

\* the double next above 1
DoubleAfterOne == Double(2^29, 2^5)

\* C4 as stated: each of the three weight tables sums to exactly 1.0, and
\* for every combination of scores within [-1,1] the weighted sum the code
\* computes is within [-1,1] before clamping, for every symbol class.
C4_WeightsSumToOne ==
    /\ TableTotal(dataSourceWeights) = WeightOne
    /\ TableTotal(cryptoWeights) = WeightOne
    /\ TableTotal(indianWeights) = WeightOne
    /\ (fnOut.applied /\ fnArg.fn = "calculateWeightedScore") =>
           /\ -ScoreOne <= fnOut.sum /\ fnOut.sum <= ScoreOne
           /\ fnOut.double.exact => InDoubleUnit(fnOut.double.sum)

\* C4 (amended): each of the three tables sums to 1.0 as decimal numbers,
\* and in exact arithmetic the weighted sum of scores within [-1,1] is
\* within [-1,1].  The sum the code computes in doubles is within [-1,1]
\* for the default and the regional-equity table; for the cryptocurrency
\* table it is within one rounding step of it (1.0000000000000002 when all
\* five scores are 1), and the clamp brings finalScore into [-1,1].
C4_SumWithinOneRounding ==
    /\ TableTotal(dataSourceWeights) = WeightOne
    /\ TableTotal(cryptoWeights) = WeightOne
    /\ TableTotal(indianWeights) = WeightOne
    /\ (fnOut.applied /\ fnArg.fn = "calculateWeightedScore") =>
           /\ -ScoreOne <= fnOut.sum /\ fnOut.sum <= ScoreOne
           /\ fnOut.finalScore = fnOut.sum
           /\ fnOut.double.exact =>
                  /\ ~DoubleLess(DoubleAfterOne, DoubleAbs(fnOut.double.sum))
                  /\ InDoubleUnit(fnOut.double.finalScore)
                  /\ fnArg.symbol \notin cryptoSymbols =>
                         InDoubleUnit(fnOut.double.sum)

C4_Witness ==
    /\ fnOut.applied
    /\ fnArg.fn = "calculateWeightedScore"
    /\ fnArg.symbol = <<"BTC">>
    /\ \A f \in DOMAIN fnArg.scores : fnArg.scores[f] = ScoreOne
    /\ fnOut.sum = ScoreOne
    /\ fnOut.double.sum = DoubleAfterOne
    /\ fnOut.double.finalScore = DoubleOne

----------------------------------------------------------------------------
(* Properties of generateFusionSignal (Spec) *)

Range(seq) == {seq[k] : k \in 1..Len(seq)}

InUnit(x) == IsNum(x) /\ -ScoreOne <= x /\ x <= ScoreOne

\* C2: every returned FusionSignal has its five source scores and its
\* finalScore inside [-1,1] and its confidence inside [0,100], none of them
\* undefined or NaN.
C2_ScoresInRange ==
    \A k \in 1..Len(fusionSignals) :
        LET sig == fusionSignals[k]
        IN  /\ InUnit(sig.technicalScore)
            /\ InUnit(sig.socialScore)
            /\ InUnit(sig.telegramScore)
            /\ InUnit(sig.indianMarketScore)
            /\ InUnit(sig.newsScore)
            /\ InUnit(sig.finalScore)
            /\ IsNum(sig.confidence)
            /\ 0 <= sig.confidence /\ sig.confidence <= 100 * PctOne

\* C5: a source whose underlying call failed contributes score 0 and 0
\* mentions and is absent from dataSourcesUsed; a source that answered is
\* listed.
C5_UsedSourcesExact ==
    \A k \in 1..Len(fusionSignals) :
        LET sig == fusionSignals[k]
            used == Range(sig.dataSourcesUsed)
        IN  /\ env.social.kind = "throws" =>
                   /\ sig.socialScore = 0 /\ sig.socialMentions = 0
                   /\ "Social Sentiment" \notin used
            /\ env.telegram.kind = "throws" =>
                   /\ sig.telegramScore = 0 /\ sig.telegramMentions = 0
                   /\ "Telegram Signals" \notin used
            /\ (env.social.kind = "list" /\ env.social.found) =>
                   "Social Sentiment" \in used
            /\ (env.telegram.kind = "list" /\ env.telegram.found) =>
                   "Telegram Signals" \in used
            /\ "Technical Analysis" \in used

\* C6: a started request always eventually returns a FusionSignal, also
\* when one of the source calls never completes: as long as the request is
\* gathering, one of its steps (a source settling, by answer or by timeout,
\* or the join) can be taken.
C6_NeverBlocked ==
    fpc = "gathering" =>
        \/ \E s \in Sources : settled[s].status = "pending" /\ Completes(s)
        \/ \A s \in Sources : settled[s].status # "pending"

WithoutStamp(sig) == [sig EXCEPT !.id = 0, !.timestamp = 0, !.lastUpdated = 0]

\* C7: two calls for the same symbol in which the sources return identical
\* data yield FusionSignals equal in every field except the timestamp (and
\* the identifier drawn with it).
C7_Deterministic ==
    \A j, k \in 1..Len(fusionSignals) :
        WithoutStamp(fusionSignals[j]) = WithoutStamp(fusionSignals[k])

----------------------------------------------------------------------------
(* Properties of runBacktest, checked under BacktestSpec *)

\* C8: at every step of runBacktest, whatever the prices and the signals,
\* at most one position is open, and a step opens a position only when
\* none is open: positions opened and trades closed differ by at most one.
C8_AtMostOnePosition ==
    [][/\ opened' # opened => position.type = "none" /\ opened' = opened + 1
       /\ opened' - Len(trades') \in {0, 1}
       /\ position'.type = "none" <=> opened' = Len(trades')]_vars

\* a BUY signal arrived while a long position was open, and opened nothing
C8_Witness ==
    /\ position.type = "LONG"
    /\ lastSignal.action = "BUY"
    /\ openedAt < i - 1
    /\ opened = 1
    /\ trades = <<>>

C10_WinRateRange ==
    btpc = "done" =>
        /\ IsNum(result.winRate)
        /\ 0 <= result.winRate
        /\ result.winRate <= 100 * PctOne
        /\ result.totalTrades = 0 => result.winRate = 0

\* the loop ran over several candles and closed no trade
C10_Witness ==
    /\ btpc = "done"
    /\ i > Window + 1
    /\ result.totalTrades = 0
    /\ result.winRate = 0

----------------------------------------------------------------------------
(* Properties of runBacktest on rising prices, checked under BullishSpec *)

\* C11: for every strictly increasing close-price series with at least one
\* decision step and a signal source answering BUY at every step, the
\* result returned has winRate = 100 and totalReturn > 0.
C11_BullishRunWins ==
    (btpc = "done" /\ Len(historicalData) > Window + 1) =>
        /\ result.winRate = 100 * PctOne
        /\ result.totalReturn > 0

----------------------------------------------------------------------------
(* Properties of the signal generator, checked under GeneratorSpec *)

\* C12: calculateTechnicalIndicators fails with the insufficient-data error
\* for every series of fewer than 50 candles, the empty series included.
C12_InsufficientData ==
    (fnOut.applied /\ fnArg.fn = "calculateTechnicalIndicators"
     /\ Len(fnArg.marketData) < 50) =>
        /\ fnOut.value.threw
        /\ fnOut.value.error =
               "Insufficient historical data for technical analysis"

\* the empty series was given, and the error was raised
C12_Witness ==
    /\ fnOut.applied
    /\ fnArg.fn = "calculateTechnicalIndicators"
    /\ fnArg.marketData = <<>>
    /\ fnOut.value.threw

\* C13: for every series of 1 to 49 candles generateEnhancedSignal returns
\* the signal of the simplified estimator (confidence 40 or 60), never the
\* generic error fallback.
C13_SimplifiedWhenShort ==
    (fnOut.applied /\ fnArg.fn = "generateEnhancedSignal"
     /\ Len(fnArg.marketData) \in 1..49) =>
        /\ fnOut.value = generateSimplifiedSignal(fnArg.marketData,
                             fnArg.newsArticles, fnArg.currentPrice)
        /\ fnOut.value.confidence \in {40 * PctOne, 60 * PctOne}
        /\ fnOut.value.reasoning # <<"Insufficient data for enhanced analysis">>

----------------------------------------------------------------------------
(* Further properties of runBacktest, checked under BacktestSpec *)

----------------------------------------------------------------------------
(* Properties of the LLM budget (BudgetSpec) *)

\* C15: within one calendar day the number of requests sent to the LLM by
\* generateTradingSignal and by the deep analysis of fetchAndAnalyzeNews
\* together is never above the daily budget of 20, whether the requests
\* succeed or fail.
C15_CallsWithinBudget == llmCalls <= dailyOpenAIBudget

\* C16: for every interleaving of generateTradingSignal and
\* fetchAndAnalyzeNews invocations at their await points, budgetUsedToday
\* is never greater than dailyOpenAIBudget.
C16_CounterWithinBudget == budgetUsedToday <= dailyOpenAIBudget

----------------------------------------------------------------------------
(* Properties of auto-trading (AutoTradeSpec) *)

\* C17: executeAutoTrade creates a position only for a signal whose
\* confidence is above 95 percent.
C17_ExecutedAbove95 == \A p \in positions : p.confidence > 95

\* C28: as long as maxDailyTrades is not changed, executeAutoTrade creates
\* at most maxDailyTrades positions on one calendar day, however the
\* invocations interleave.
C28_DailyLimit == createdToday <= autoTradingConfig.maxDailyTrades

----------------------------------------------------------------------------
(* Further properties of the signal generator (GeneratorSpec) *)

\* C18: for indicators with RSI in [0,100] and every current price,
\* calculateTechnicalScore returns a value in [-1,1], which is the sum of
\* the five terms divided by 5, also when a term contributes 0.
C18_TechnicalScoreRange ==
    (/\ fnOut.applied
     /\ fnArg.fn = "calculateTechnicalScore"
     /\ fnArg.indicators.rsi \in 0..(100 * PctOne)) =>
        /\ fnOut.value \in (-ScoreOne)..ScoreOne
        /\ fnOut.value * 5 =
               TechnicalTermSum(fnArg.indicators, fnArg.currentPrice)

\* a score to which the MACD and the trend contribute nothing
C18_Witness ==
    /\ fnOut.applied
    /\ fnArg.fn = "calculateTechnicalScore"
    /\ MacdTerm(fnArg.indicators.macd) = 0
    /\ TrendTerm(fnArg.indicators.trend) = 0
    /\ fnOut.value > 0

----------------------------------------------------------------------------
(* Further properties of the scoring functions (ScoreSpec) *)

\* C19: for every finalScore in [-1,1], the confidence is
\* min(100, max(50, |finalScore| x 100)) when the direction is BUY or SELL,
\* and at most 60 when the direction is HOLD.
C19_ConfidenceClamp ==
    (fnOut.applied /\ fnArg.fn = "determineDirectionAndConfidence") =>
        LET percent == IF fnArg.finalScore < 0 THEN -fnArg.finalScore
                       ELSE fnArg.finalScore
            clamped == IF percent < 50 * PctOne THEN 50 * PctOne
                       ELSE IF percent > 100 * PctOne THEN 100 * PctOne
                       ELSE percent
        IN  /\ fnOut.direction \in {"BUY", "SELL"} =>
                   fnOut.confidence = clamped
            /\ fnOut.direction = "HOLD" => fnOut.confidence <= 60 * PctOne

\* a SELL below the floor of 50 and a HOLD
C19_Witness ==
    /\ fnOut.applied
    /\ fnArg.fn = "determineDirectionAndConfidence"
    /\ \/ fnOut.direction = "SELL" /\ fnArg.finalScore = -(2 * ScoreOne) \div 10
       \/ fnOut.direction = "HOLD" /\ fnArg.finalScore = DirectionBand

\* the function was applied to a symbol with a reference price and
\* answered BUY or SELL
PricedSignal ==
    /\ fnOut.applied
    /\ fnArg.fn = "generateTradingParameters"
    /\ getMockCurrentPrice(fnArg.symbol) # 0
    /\ fnOut.direction \in {"BUY", "SELL"}

\* entry, stop and target are the given percentages of the price
PriceLevels(entry, stop, target) ==
    LET p == getMockCurrentPrice(fnArg.symbol)
    IN  /\ fnOut.tradingParams.suggestedEntry = (p \div 100) * entry
        /\ fnOut.tradingParams.suggestedStopLoss = (p \div 100) * stop
        /\ fnOut.tradingParams.suggestedTarget = (p \div 100) * target

\* how far the position size, in tenths, is from confidence / 20 held
\* between 1 and 5, in the unit of the confidence
SizeOffset ==
    LET held == IF fnOut.confidence < 20 * PctOne THEN 20 * PctOne
                ELSE IF fnOut.confidence > 100 * PctOne THEN 100 * PctOne
                ELSE fnOut.confidence
    IN  fnOut.tradingParams.positionSize * 2 * PctOne - held

\* C20 as stated: a BUY signal of a symbol with a reference price p has
\* entry 1.01p, stop 0.95p and target 1.10p, a SELL signal 0.99p, 1.05p
\* and 0.90p, and positionSize equals min(5, max(1, confidence / 20)).
C20_TradingParameters ==
    PricedSignal =>
        /\ fnOut.direction = "BUY" => PriceLevels(101, 95, 110)
        /\ fnOut.direction = "SELL" => PriceLevels(99, 105, 90)
        /\ SizeOffset = 0

\* C20, amended: the same price levels, and positionSize is
\* min(5, max(1, confidence / 20)) rounded to one decimal place.
C20_TradingParametersRounded ==
    PricedSignal =>
        /\ fnOut.direction = "BUY" => PriceLevels(101, 95, 110)
        /\ fnOut.direction = "SELL" => PriceLevels(99, 105, 90)
        /\ SizeOffset \in (-PctOne)..PctOne

\* a SELL of confidence 57.3: the position size is 2.9, not 2.865
C20_Witness ==
    /\ PricedSignal
    /\ fnOut.direction = "SELL"
    /\ fnOut.confidence = 5730
    /\ fnOut.tradingParams.positionSize = 29

----------------------------------------------------------------------------
(* Properties of the trades and the result of runBacktest (BacktestSpec) *)

----------------------------------------------------------------------------
(* Properties of the closing rule of runBacktest (ThresholdSpec) *)

\* a loop step taken while a position is open
StepWithPosition == btpc = "loop" /\ i' = i + 1 /\ position.type # "none"

\* the signal of the step opposes the held side
SignalOpposes ==
    \/ position.type = "LONG" /\ lastSignal'.action = "SELL"
    \/ position.type = "SHORT" /\ lastSignal'.action = "BUY"

\* the close of candle i is 5% or more against, or 10% or more in favour
\* of, the entry price
MovedAtLeast ==
    LET close == At(historicalData, i).close
    IN  IF position.type = "LONG"
        THEN 100 * close <= 95 * position.price
             \/ 100 * close >= 110 * position.price
        ELSE 100 * close >= 105 * position.price
             \/ 100 * close <= 90 * position.price

\* the close of candle i is more than 5% against, or more than 10% in
\* favour of, the entry price
MovedMoreThan ==
    LET close == At(historicalData, i).close
    IN  IF position.type = "LONG"
        THEN 100 * close < 95 * position.price
             \/ 100 * close > 110 * position.price
        ELSE 100 * close > 105 * position.price
             \/ 100 * close < 90 * position.price

\* the step closed the position, filling at the close of candle i + 1
ClosedAtNext ==
    /\ position'.type = "none"
    /\ Len(trades') = Len(trades) + 1
    /\ trades'[Len(trades')].exitPrice = At(historicalData, i + 1).close

\* the step left the position and the trades as they were
KeptOpen == position' = position /\ trades' = trades

----------------------------------------------------------------------------
(* Properties of the decision rules (GeneratorSpec) *)

\* C22: for the same technical score, all other sources neutral, the
\* direction runBacktest and quickAccuracyTest act on equals the direction
\* generateFusionSignal assigns.
C22_SameDecisionRule ==
    (fnOut.applied /\ fnArg.fn = "direction") =>
        fnOut.value.backtest = fnOut.value.fusion

\* C27: every BUY or SELL signal that generateEnhancedSignal returns from
\* its full-analysis path (enough closes for the indicators, so that the
\* ensemble and the ML filter run) has a confidence of at least 65 percent.
C27_DirectionalAtLeast65 ==
    (/\ fnOut.applied
     /\ fnArg.fn = "generateEnhancedSignal"
     /\ ~InsufficientData(Closes(fnArg.marketData))
     /\ fnOut.value.action \in {"BUY", "SELL"}) =>
        fnOut.value.confidence >= 65 * PctOne

----------------------------------------------------------------------------
(* Properties of quickAccuracyTest (QuickSpec) *)

\* C23: there is a price history for which a trailing 20-candle window
\* yields a BUY or SELL signal, so that totalSignals > 0 and a result other
\* than the default one is returned: once every history has been tested,
\* at least one of them scored.
C23_ScoresSomeHistory ==
    (fnArg.fn = "quickAccuracyTest" /\ fnArg.tested = QuickHistoryCount) =>
        fnOut.scored > 0

----------------------------------------------------------------------------
(* Properties of the signals runBacktest trades on (WindowSpec) *)

\* C26: runBacktest is able to trade: with the 50-candle window, no news
\* and no forecast there is a window for which the generator answers BUY or
\* SELL, so that a position can be opened and totalTrades > 0 is reachable:
\* once every window has been tried, at least one was answered BUY or SELL.
C26_SomeWindowTrades ==
    (fnArg.fn = "backtestSignal" /\ fnArg.tested = Len(BacktestWindows)) =>
        fnOut.scored > 0

----------------------------------------------------------------------------
(* Properties of POST /api/signals/execute/:id (ExecuteSpec) *)

\* C29: a trading signal is executed at most once: whether it was executed
\* by the endpoint or by executeAutoTrade, further execution requests for
\* its id create no additional position and no additional trade record, so
\* no signal ever has more than one position or more than one trade.
C29_ExecutedOnce ==
    \A id \in DOMAIN executions :
        executions[id].positions <= 1 /\ executions[id].trades <= 1

----------------------------------------------------------------------------
(* Properties of connectWebSocket (SocketSpec) *)

\* C30: after the cleanup function has been called, the instance opens no
\* new WebSocket connection: no step taken after the cleanup runs
\* new WebSocket(wsUrl).
C30_NoConnectionAfterCleanup ==
    [][cleanedUp => connections' = connections]_vars

====
